---------------------------- MODULE Spec2Model ----------------------------
(***************************************************************************)
(* Model of the OpenFoodFacts field normalisation and data-quality engine: *)
(*   transform/product_transform.py   ProductTransformer                   *)
(*   analyze/product_analyzer.py      ProductAnalyzer                      *)
(*   analyze/analyze_num.py           NumericFormatAnalyzer                *)
(*   analyze/error_extract.py         ErrorValueExtractor                  *)
(*   scraper/batch_scraper.py         OpenFoodFactsScraper                 *)
(*                                                                         *)
(* A text is a sequence of characters, each character a one-element        *)
(* string; characters outside ASCII carry a name ("NBSP", "ENDASH", ...).  *)
(* A JSON value is a tagged record: [t |-> "absent"], [t |-> "null"],      *)
(* [t |-> "str", s |-> text] or [t |-> "map", m |-> function].             *)
(***************************************************************************)
EXTENDS Integers, Sequences, FiniteSets, TLC

VARIABLES
    \* ---- the local report directory (os.path.exists / open(..., "w"))
    disk,          \* path -> content, path = <<family, file suffix>>
    wpc,           \* writer -> "idle" | "write"
    wscan,         \* writer -> number of writes made when its scan ran (history)
    wpath,         \* writer -> the path its scan selected
    wlog,          \* family -> suffixes written in succession (history)
    nwrites,       \* number of writes so far (the content of a snapshot)
    \* ---- one call of a pure function of the engine
    fn,            \* the function called
    fn_in,         \* its argument
    fn_out,        \* its result, Pending before it returns
    \* ---- ProductAnalyzer.analyze_all_products
    store,         \* S3: key -> object body
    vpc,           \* "start" | "loop" | "save" | "done"
    vkeys,         \* keys, the listing
    vi,            \* number of keys the loop has processed
    results, valids, errors, failed_files, folder_counts,
    summary,       \* the summary written by _save_results
    \* ---- NumericFormatAnalyzer.analyze_all
    nstore,        \* the listing's objects, in listing order
    npc,           \* "idle" | "loop" | "save"
    nkeys,         \* self.keys
    ni,            \* number of keys the loop has processed
    raw_results, numbers_results, units_results,
    ncalls,        \* calls of analyze_all so far
    \* ---- ErrorValueExtractor and the snapshots it reads
    epc,           \* "none" | "ready" | "raised" | "done"
    errors_path,   \* self.errors_path, <<>> before the constructor sets it
    loaded_errors, \* errors, as loaded by extract_and_count_values
    final_result,  \* final_result, as written by extract_and_count_values
    last_run,      \* the products_with_errors path the latest run wrote (history)
    \* ---- OpenFoodFactsScraper, its process and the S3 bucket
    spc,           \* "none" | "ready" | "pages" | "scrape" | "ended"
    checkpoint_file, \* CHECKPOINT_FILE of the running process
    current_page, barcodes, already_uploaded,
    barcodes_list, \* barcodes_list of run()
    si,            \* number of barcodes the loop of scrape_and_upload_foods has seen
    s3,            \* the keys of the bucket, <<folder, barcode>>
    s3_at_start,   \* the keys of the bucket when the scraper was created (history)
    uploaded,      \* the barcodes uploaded by the run, in order (history)
    interrupted_at \* the checkpoint an interrupted run had saved last (history)

vars == <<disk, wpc, wscan, wpath, wlog, nwrites, fn, fn_in, fn_out,
          store, vpc, vkeys, vi, results, valids, errors, failed_files,
          folder_counts, summary,
          nstore, npc, nkeys, ni, raw_results, numbers_results,
          units_results, ncalls,
          epc, errors_path, loaded_errors, final_result, last_run,
          spc, checkpoint_file, current_page, barcodes, already_uploaded,
          barcodes_list, si, s3, s3_at_start, uploaded, interrupted_at>>

fileVars == <<disk, wpc, wscan, wpath, wlog, nwrites>>
pureVars == <<fn, fn_in, fn_out>>
validVars == <<store, vpc, vkeys, vi, results, valids, errors, failed_files,
               folder_counts, summary>>
numVars == <<nstore, npc, nkeys, ni, raw_results, numbers_results,
             units_results, ncalls>>
extractVars == <<epc, errors_path, loaded_errors, final_result, last_run>>
scrapeVars == <<spc, checkpoint_file, current_page, barcodes, already_uploaded,
                barcodes_list, si, s3, s3_at_start, uploaded, interrupted_at>>

-----------------------------------------------------------------------------
(* Characters and texts *)

Digits == <<"0", "1", "2", "3", "4", "5", "6", "7", "8", "9">>
UpperSeq == <<"A", "B", "C", "D", "E", "F", "G", "H", "I", "J", "K", "L", "M",
              "N", "O", "P", "Q", "R", "S", "T", "U", "V", "W", "X", "Y", "Z">>
LowerSeq == <<"a", "b", "c", "d", "e", "f", "g", "h", "i", "j", "k", "l", "m",
              "n", "o", "p", "q", "r", "s", "t", "u", "v", "w", "x", "y", "z">>

Range(f) == {f[x] : x \in DOMAIN f}

\* \d
IsDigit(c) == c \in Range(Digits)
\* [a-zA-Zµ]
IsUnitLetter(c) == c \in Range(UpperSeq) \cup Range(LowerSeq) \cup {"MICRO"}
\* \s, and what str.strip() removes
IsSpace(c) == c \in {" ", "TAB", "NL", "NBSP"}

DigitVal(c) == (CHOOSE i \in 1..10 : Digits[i] = c) - 1

\* str.lower() on one character
LowerChar(c) ==
    IF c \in Range(UpperSeq)
    THEN LowerSeq[CHOOSE i \in 1..26 : UpperSeq[i] = c]
    ELSE IF c = "CAP_ACIRC" THEN "ACIRC"
    ELSE IF c = "CAP_SCARON" THEN "SCARON"
    ELSE c

\* str.lower()
Lower(s) == [i \in 1..Len(s) |-> LowerChar(s[i])]

\* str.replace(a, b) for single characters a and b
ReplaceChar(s, a, b) == [i \in 1..Len(s) |-> IF s[i] = a THEN b ELSE s[i]]

\* The text of a TLA+ function over 1..n is a sequence.
RECURSIVE LStrip(_)
LStrip(s) == IF s # <<>> /\ IsSpace(s[1]) THEN LStrip(Tail(s)) ELSE s

RECURSIVE RStrip(_)
RStrip(s) ==
    IF s # <<>> /\ IsSpace(s[Len(s)])
    THEN RStrip(SubSeq(s, 1, Len(s) - 1))
    ELSE s

\* str.strip()
Strip(s) == RStrip(LStrip(s))

\* Length of the longest run of characters satisfying P that starts at s[i]
\* (a greedy + or * of a character class), for 1 <= i <= Len(s) + 1.
RunLen(s, i, P(_)) ==
    CHOOSE n \in 0..(Len(s) - i + 1) :
        /\ \A j \in i..(i + n - 1) : P(s[j])
        /\ (i + n > Len(s) \/ ~P(s[i + n]))

\* s[i..] starts with the text p, compared case-insensitively (re.IGNORECASE)
StartsWithAtI(s, i, p) ==
    /\ i + Len(p) - 1 <= Len(s)
    /\ \A j \in 1..Len(p) : LowerChar(s[i + j - 1]) = LowerChar(p[j])

StartsWith(s, p) ==
    /\ Len(p) <= Len(s)
    /\ \A j \in 1..Len(p) : s[j] = p[j]

-----------------------------------------------------------------------------
(* float(): a decimal value is kept exactly, as mant / 10^exp in lowest    *)
(* terms, so that 1.50 = 1.5 and 1008.0 # 1.008.                           *)

RECURSIVE DigitsVal(_)
DigitsVal(s) ==
    IF s = <<>> THEN 0
    ELSE 10 * DigitsVal(SubSeq(s, 1, Len(s) - 1)) + DigitVal(s[Len(s)])

RECURSIVE Norm(_, _)
Norm(mant, exp) ==
    IF exp > 0 /\ mant % 10 = 0 THEN Norm(mant \div 10, exp - 1)
    ELSE [mant |-> mant, exp |-> exp]

Dec(mant, exp) == Norm(mant, exp)

IsDigitOrDot(c) == IsDigit(c) \/ c = "."
IsDigitDotComma(c) == IsDigit(c) \/ c \in {".", ","}

\* the least element of a non-empty set of integers
Least(S) == CHOOSE a \in S : \A b \in S : a <= b

FloatAt(s, dots) ==
    IF Cardinality(dots) > 1 \/ Cardinality(dots) = Len(s)
    THEN [kind |-> "ValueError"]
    ELSE [kind |-> "float",
          v |-> Dec(DigitsVal(SelectSeq(s, IsDigit)),
                    IF dots = {} THEN 0 ELSE Len(s) - Least(dots))]

\* float(s) for a text of digits and periods: ValueError unless it has at
\* most one period and at least one digit.
FloatOfDigitsDots(s) == FloatAt(s, {i \in 1..Len(s) : s[i] = "."})

-----------------------------------------------------------------------------
(* JSON values and Python results *)

Absent == [t |-> "absent"]
Null == [t |-> "null"]
Str(s) == [t |-> "str", s |-> s]
\* a JSON object: its members in order, as <<key text, value>> pairs
Map(pairs) == [t |-> "map", m |-> pairs]

\* Python truthiness of a JSON value ("if not value")
Truthy(v) ==
    CASE v.t = "str" -> v.s # <<>>
      [] v.t = "map" -> v.m # <<>>
      [] OTHER -> FALSE

None == [kind |-> "none"]
Raise(e) == [kind |-> "raise", exc |-> e]
Ok(v) == [kind |-> "ok", v |-> v]

\* dict.get(key, default): a key that is present with null gives None
Get(product, key, default) ==
    IF key \in DOMAIN product THEN product[key] ELSE default

\* d[k] = v
Put(d, k, v) == [x \in DOMAIN d \cup {k} |-> IF x = k THEN v ELSE d[x]]

EmptyMap == [x \in {} |-> 0]

T_energy == <<"e", "n", "e", "r", "g", "y">>
T_kj == <<"k", "j">>
T_kcal == <<"k", "c", "a", "l">>
T_energy_kj_100g == <<"e", "n", "e", "r", "g", "y", "_", "k", "j", "_", "1", "0", "0", "g">>
T_energy_kcal_100g == <<"e", "n", "e", "r", "g", "y", "_", "k", "c", "a", "l", "_", "1", "0", "0", "g">>
T_abcde == <<"a", "b", "c", "d", "e">>
T_question == <<"?">>

-----------------------------------------------------------------------------
(* transform/product_transform.py: ProductTransformer *)

\* _standardize_text on a text: strip, NBSP -> " ", U+2019 -> "'",
\* U+2013 -> "-", lower
StandardizeTextT(text) ==
    IF text = <<>> THEN <<>>
    ELSE Lower(ReplaceChar(ReplaceChar(ReplaceChar(Strip(text),
             "NBSP", " "), "RSQUO", "'"), "ENDASH", "-"))

\* re.search(r"[abcde]", value): the first character of the class, if any
FirstOf(s, hits) ==
    IF hits = {} THEN None ELSE [kind |-> "letter", v |-> <<s[Least(hits)]>>]

FirstScoreLetter(s) == FirstOf(s, {i \in 1..Len(s) : s[i] \in Range(T_abcde)})

\* _extract_score_letter on a text
ExtractScoreLetter(value) ==
    IF value = <<>> THEN None
    ELSE FirstScoreLetter(StandardizeTextT(value))

\* float(match.group(1)) and match.group(2).lower()
SplitResult(q, unit) ==
    IF q.kind = "ValueError" THEN Raise("ValueError")
    ELSE [kind |-> "pair", quantity |-> q.v, unit |-> unit]

\* the match of r"([\d\.]+)\s*([a-zA-Zµ]+)": n characters of group 1, white
\* space up to position a, u characters of group 2
SplitGroups(v, n, a, u) ==
    IF n >= 1 /\ u >= 1
    THEN SplitResult(FloatOfDigitsDots(SubSeq(v, 1, n)),
                     Lower(SubSeq(v, 1 + a, a + u)))
    ELSE None

SplitSpace(v, n, a) == SplitGroups(v, n, a, RunLen(v, 1 + a, IsUnitLetter))

SplitNumber(v, n) == SplitSpace(v, n, n + RunLen(v, 1 + n, IsSpace))

\* re.match on the comma-normalized text
SplitMatch(v) == SplitNumber(v, RunLen(v, 1, IsDigitOrDot))

\* _split_quantity_and_unit on a text
SplitQuantityAndUnit(value) ==
    IF value = <<>> THEN None
    ELSE SplitMatch(ReplaceChar(value, ",", "."))

\* \s*<unit> matches at position j, letters compared without case
UnitFollows(value, j, unit) ==
    StartsWithAtI(value, j + RunLen(value, j, IsSpace), unit)

\* r"([\d\.,]+)\s*<unit>" matches at position i
EnergyMatchesAt(value, i, unit) ==
    /\ IsDigitDotComma(value[i])
    /\ UnitFollows(value, i + RunLen(value, i, IsDigitDotComma), unit)

EnergyGroupAt(value, i) ==
    [kind |-> "match",
     group |-> SubSeq(value, i, i + RunLen(value, i, IsDigitDotComma) - 1)]

EnergyLeftmost(value, starts) ==
    IF starts = {} THEN None ELSE EnergyGroupAt(value, Least(starts))

\* re.search(r"([\d\.,]+)\s*<unit>", value, re.IGNORECASE): group 1 of the
\* leftmost match, or None
EnergySearch(value, unit) ==
    EnergyLeftmost(value, {i \in 1..Len(value) : EnergyMatchesAt(value, i, unit)})

\* float(match.group(1).replace(",", ".")) if there is a match
EnergyFloat(m) ==
    IF m.kind = "match" THEN FloatOfDigitsDots(ReplaceChar(m.group, ",", "."))
    ELSE None

Qty(q, u) == [t |-> "qty", quantity |-> q, unit |-> u]

PutEnergy(new_nutrients, key, f, unit) ==
    IF f.kind = "float" THEN Put(new_nutrients, key, Qty(f.v, unit))
    ELSE new_nutrients

EnergyPut(kj, kcal, new_nutrients) ==
    IF kj.kind = "ValueError" \/ kcal.kind = "ValueError"
    THEN Raise("ValueError")
    ELSE Ok(PutEnergy(PutEnergy(new_nutrients, T_energy_kj_100g, kj, T_kj),
                      T_energy_kcal_100g, kcal, T_kcal))

\* the energy branch of _transform_nutrients for one text value, applied to
\* the accumulated new_nutrients
EnergyCase(value, new_nutrients) ==
    EnergyPut(EnergyFloat(EnergySearch(value, T_kj)),
              EnergyFloat(EnergySearch(value, T_kcal)), new_nutrients)

\* a failed extraction is kept as an entry without quantity and unit
PutPair_KeepFailed(r, key_standardized, new_nutrients) ==
    IF r.kind = "raise" THEN r
    ELSE IF r.kind = "pair"
    THEN Ok(Put(new_nutrients, key_standardized, Qty(r.quantity, r.unit)))
    ELSE Ok(Put(new_nutrients, key_standardized, Null))

PutPair(r, key_standardized, new_nutrients) ==
    IF r.kind = "raise" THEN r
    ELSE IF r.kind = "pair"
    THEN Ok(Put(new_nutrients, key_standardized, Qty(r.quantity, r.unit)))
    ELSE Ok(new_nutrients)

NutrientKeyed(key_standardized, value, new_nutrients) ==
    IF key_standardized = T_energy
    THEN IF value.t = "str" THEN EnergyCase(value.s, new_nutrients)
         ELSE Raise("TypeError")
    ELSE IF value.t = "str"
    THEN PutPair(SplitQuantityAndUnit(value.s), key_standardized, new_nutrients)
    ELSE Ok(new_nutrients)

\* one iteration of the loop of _transform_nutrients; an exception of an
\* earlier iteration has left the loop
NutrientStep(acc, key, value) ==
    IF acc.kind = "raise" THEN acc
    ELSE IF ~Truthy(value) \/ value = Str(T_question) THEN acc
    ELSE NutrientKeyed(StandardizeTextT(key), value, acc.v)

RECURSIVE TransformNutrientsFrom(_, _, _)
TransformNutrientsFrom(pairs, i, acc) ==
    IF i > Len(pairs) THEN acc
    ELSE TransformNutrientsFrom(pairs, i + 1,
                                NutrientStep(acc, pairs[i][1], pairs[i][2]))

\* _transform_nutrients
TransformNutrients(pairs) == TransformNutrientsFrom(pairs, 1, Ok(EmptyMap))

PyFloatSigned(f, neg) ==
    IF f.kind = "float"
    THEN [kind |-> "float", v |-> f.v, neg |-> (neg /\ f.v.mant # 0)]
    ELSE f

PyFloatBody(body, neg) ==
    IF body # <<>> /\ \A i \in 1..Len(body) : IsDigitOrDot(body[i])
    THEN PyFloatSigned(FloatOfDigitsDots(body), neg)
    ELSE [kind |-> "ValueError"]

PyFloatStripped(b) ==
    IF b # <<>> /\ b[1] \in {"+", "-"} THEN PyFloatBody(Tail(b), b[1] = "-")
    ELSE PyFloatBody(b, FALSE)

\* float(value) for a text: surrounding white space and one sign are
\* accepted, then digits with at most one period
PyFloat(s) == PyFloatStripped(Strip(s))

FloatOrNull(f) ==
    IF f.kind = "float" THEN Ok([t |-> "float", v |-> f.v, neg |-> f.neg])
    ELSE Ok(Null)

\* _transform_carbon_impact: ValueError is caught, the field becomes None
TransformCarbonImpact(value) ==
    IF ~Truthy(value) THEN Ok(Null)
    ELSE IF value.t = "str" THEN FloatOrNull(PyFloat(value.s))
    ELSE Raise("TypeError")

NameBefore(s, cut) ==
    IF cut = {} THEN Strip(s) ELSE Strip(SubSeq(s, 1, Least(cut) - 1))

\* _transform_name: the part before the first U+2013, stripped
TransformName(name) ==
    IF ~Truthy(name) THEN Ok(name)
    ELSE IF name.t = "str"
    THEN Ok(Str(NameBefore(name.s, {i \in 1..Len(name.s) : name.s[i] = "ENDASH"})))
    ELSE Raise("AttributeError")

LetterOrNull(l) == IF l.kind = "letter" THEN Ok(Str(l.v)) ELSE Ok(Null)

\* _extract_score_letter on a JSON value that is a text or null
ScoreLetterField(value) ==
    IF ~Truthy(value) THEN Ok(Null)
    ELSE LetterOrNull(ExtractScoreLetter(value.s))

QtyOrNull(r) ==
    IF r.kind = "raise" THEN r
    ELSE IF r.kind = "pair" THEN Ok(Qty(r.quantity, r.unit))
    ELSE Ok(Null)

\* _transform_serving_size_or_quantity, with the "else None" of the caller
TransformServingSizeOrQuantity(value) ==
    IF ~Truthy(value) THEN Ok(Null)
    ELSE IF value.t = "str" THEN QtyOrNull(SplitQuantityAndUnit(value.s))
    ELSE Raise("AttributeError")

NutrientsField(r) ==
    IF r.kind = "raise" THEN r ELSE Ok([t |-> "nutrients", m |-> r.v])

\* the transformation _transform_product applies to one field
TransformField(field, value) ==
    CASE field = "name" -> TransformName(value)
      [] field \in {"nutri_score", "green_score_letter"} -> ScoreLetterField(value)
      [] field = "carbon_impact_per_100g" -> TransformCarbonImpact(value)
      [] field = "nutrients_100g" ->
            IF value.t = "map" THEN NutrientsField(TransformNutrients(value.m))
            ELSE Ok(value)
      [] field \in {"serving_size", "quantity"} ->
            TransformServingSizeOrQuantity(value)
      [] OTHER -> Ok(value)

\* the fields in the order _transform_product handles them
FieldOrder ==
    <<"name", "nutri_score", "green_score_letter", "carbon_impact_per_100g",
      "nutrients_100g", "serving_size", "quantity">>

FirstRaise(r, raising) ==
    IF raising = {} THEN Ok([f \in DOMAIN r |-> r[f].v])
    ELSE r[FieldOrder[Least(raising)]]

\* the record once every field is transformed; the first exception of a
\* field leaves _transform_product
Collect(r) ==
    FirstRaise(r, {i \in DOMAIN FieldOrder :
                     FieldOrder[i] \in DOMAIN r /\ r[FieldOrder[i]].kind = "raise"})

\* _transform_product: a copy of the record with every field transformed
TransformProduct(product) ==
    Collect([f \in DOMAIN product |-> TransformField(f, product[f])])

\* _transform_product on objects: raw is the dictionary the caller passed,
\* copy the dictionary made by product.copy(), and product names the one
\* the local variable is bound to.  A member holds its value; the nested
\* nutrients mapping is only read (_transform_nutrients fills a new one).
Bound(objects) == IF objects.product = "copy" THEN objects.copy ELSE objects.raw

\* product["field"] = value
SetItem(objects, field, value) ==
    IF objects.product = "copy"
    THEN [objects EXCEPT !.copy = Put(@, field, value)]
    ELSE [objects EXCEPT !.raw = Put(@, field, value)]

\* the statement without its copy: the local variable stays bound to the
\* caller's dictionary
CopyProduct_Alias(objects) == [raw |-> objects.raw, copy |-> EmptyMap, product |-> "raw"]

\* product = product.copy()
CopyProduct(objects) == [raw |-> objects.raw, copy |-> objects.raw, product |-> "copy"]

RECURSIVE TransformInPlace(_, _)
AssignField(objects, field, r, i) ==
    IF r.kind = "raise"
    THEN [kind |-> "raise", exc |-> r.exc, objects |-> objects]
    ELSE TransformInPlace(SetItem(objects, field, r.v), i + 1)

\* the statements of _transform_product from the i-th field on; return product
TransformInPlace(objects, i) ==
    IF i > Len(FieldOrder)
    THEN [kind |-> "ok", objects |-> objects, returned |-> objects.product]
    ELSE IF FieldOrder[i] \notin DOMAIN Bound(objects)
    THEN TransformInPlace(objects, i + 1)
    ELSE AssignField(objects, FieldOrder[i],
                     TransformField(FieldOrder[i], Bound(objects)[FieldOrder[i]]), i)

TransformProductObjects(product) ==
    TransformInPlace(CopyProduct([raw |-> product, copy |-> EmptyMap, product |-> "raw"]), 1)

-----------------------------------------------------------------------------
(* analyze/product_analyzer.py: ProductAnalyzer *)

\* str.replace(pat, rep) for a non-empty text pat
RECURSIVE ReplaceSub(_, _, _)
ReplaceSub(s, pat, rep) ==
    IF s = <<>> THEN <<>>
    ELSE IF StartsWith(s, pat)
    THEN rep \o ReplaceSub(SubSeq(s, Len(pat) + 1, Len(s)), pat, rep)
    ELSE <<s[1]>> \o ReplaceSub(Tail(s), pat, rep)

\* the replacements of _standardize_text, in order: three three-character
\* sequences (U+00E2 U+20AC then U+0161, U+2122 or U+201C), U+00A0, U+2019
\* and U+2013
AnalyzerReplacements(s) ==
    ReplaceChar(ReplaceChar(ReplaceChar(
        ReplaceSub(ReplaceSub(ReplaceSub(s,
            <<"ACIRC", "EURO", "SCARON">>, <<",">>),
            <<"ACIRC", "EURO", "TM">>, <<"'">>),
            <<"ACIRC", "EURO", "LDQUO">>, <<"-">>),
        "NBSP", " "), "RSQUO", "'"), "ENDASH", "-")

\* ProductAnalyzer._standardize_text on a text
StandardizeTextA(text) ==
    IF text = <<>> THEN <<>>
    ELSE Lower(AnalyzerReplacements(Strip(text)))

\* ProductAnalyzer._standardize_text on a JSON value: a non-empty mapping
\* has no strip()
StandardizeValueA(value) ==
    IF ~Truthy(value) THEN Ok(<<>>)
    ELSE IF value.t = "str" THEN Ok(StandardizeTextA(value.s))
    ELSE Raise("AttributeError")

\* the names of the reference file (nutrients_reference_annotated.json)
T_Energy == <<"E", "n", "e", "r", "g", "y">>
T_Fat == <<"F", "a", "t">>
T_Proteins == <<"P", "r", "o", "t", "e", "i", "n", "s">>
T_Carbohydrates == <<"C", "a", "r", "b", "o", "h", "y", "d", "r", "a", "t", "e", "s">>
T_Salt_g == <<"S", "a", "l", "t", " ", "(", "g", ")">>
ReferenceFile == <<T_Energy, T_Fat, T_Proteins, T_Carbohydrates, T_Salt_g>>

\* _load_reference and __init__: reference_nutrients
ReferenceNutrientsA == {StandardizeTextA(ReferenceFile[i]) : i \in DOMAIN ReferenceFile}

T_carbohydrates == <<"c", "a", "r", "b", "o", "h", "y", "d", "r", "a", "t", "e", "s">>
T_fat == <<"f", "a", "t">>
T_proteins == <<"p", "r", "o", "t", "e", "i", "n", "s">>
\* required_main_nutrients, in sorted order
RequiredMainNutrients == <<T_carbohydrates, T_energy, T_fat, T_proteins>>

T_green_score_prefix == <<"g", "r", "e", "e", "n", "-", "s", "c", "o", "r", "e", " ">>

\* _check_name_present
CheckNamePresent(product) == Ok(Truthy(Get(product, "name", Null)))

CategoriesNonEmpty(categories) ==
    IF ~Truthy(categories) THEN Ok(FALSE)
    ELSE IF categories.t = "str" THEN Ok(Strip(categories.s) # <<>>)
    ELSE Raise("AttributeError")

\* _check_categories_present
CheckCategoriesPresent(product) ==
    CategoriesNonEmpty(Get(product, "categories", Str(<<>>)))

NutriStandardized(r) ==
    IF r.kind = "raise" THEN r
    ELSE Ok(Len(r.v) = 1 /\ r.v[1] \in Range(T_abcde))

NutriScoreValue(nutri_score) ==
    IF nutri_score.t = "null" THEN Ok(TRUE)
    ELSE NutriStandardized(StandardizeValueA(nutri_score))

\* _check_nutri_score_valid
CheckNutriScoreValid(product) ==
    NutriScoreValue(Get(product, "nutri_score", Null))

\* the rule without its prefix: only the last character is looked at
GreenStandardized_NoPrefix(r) ==
    IF r.kind = "raise" THEN r
    ELSE Ok(r.v # <<>> /\ r.v[Len(r.v)] \in Range(T_abcde))

GreenStandardized(r) ==
    IF r.kind = "raise" THEN r
    ELSE Ok(/\ StartsWith(r.v, T_green_score_prefix)
            /\ r.v[Len(r.v)] \in Range(T_abcde))

GreenScoreValue(green_score) ==
    IF green_score.t = "null" THEN Ok(TRUE)
    ELSE GreenStandardized(StandardizeValueA(green_score))

\* _check_green_score_valid
CheckGreenScoreValid(product) ==
    GreenScoreValue(Get(product, "green_score_letter", Null))

\* valid_available: the standardized keys that are reference nutrients
ValidAvailable(nutrients) ==
    {StandardizeTextA(nutrients[i][1]) : i \in DOMAIN nutrients}
        \cap ReferenceNutrientsA

MainNutrientsOf(nutrients) ==
    IF nutrients.t = "map"
    THEN Ok(Range(RequiredMainNutrients) \subseteq ValidAvailable(nutrients.m))
    ELSE Raise("AttributeError")

\* _check_main_nutrients_present: None and a text have no keys()
CheckMainNutrientsPresent(product) ==
    MainNutrientsOf(Get(product, "nutrients_100g", Map(<<>>)))

\* the checks in the order analyze_product evaluates them
CheckNames ==
    <<"name_present", "categories_present", "nutri_score_valid",
      "green_score_valid", "main_nutrients_present">>

Check(name, product) ==
    CASE name = "name_present" -> CheckNamePresent(product)
      [] name = "categories_present" -> CheckCategoriesPresent(product)
      [] name = "nutri_score_valid" -> CheckNutriScoreValid(product)
      [] name = "green_score_valid" -> CheckGreenScoreValid(product)
      [] name = "main_nutrients_present" -> CheckMainNutrientsPresent(product)

ChecksOrRaise(r, raising) ==
    IF raising = {} THEN Ok([c \in DOMAIN r |-> r[c].v])
    ELSE r[CheckNames[Least(raising)]]

\* analyze_product: the five verdicts, or the first exception of a check
AnalyzeProduct(product) ==
    ChecksOrRaise([c \in Range(CheckNames) |-> Check(c, product)],
                  {i \in DOMAIN CheckNames : Check(CheckNames[i], product).kind = "raise"})

\* the diagnostic without the difference: every required name is reported
MissingMain_All(valid_available) == RequiredMainNutrients

MissingMain(valid_available) ==
    SelectSeq(RequiredMainNutrients, LAMBDA n : n \notin valid_available)

KeysOf(pairs) == [i \in DOMAIN pairs |-> pairs[i][1]]

\* _get_error_detail of a failed check
GetErrorDetail(field, product) ==
    CASE field = "name_present" ->
            [error |-> "Missing or empty 'name' field.",
             value_found |-> Get(product, "name", Null), field_name |-> "name"]
      [] field = "categories_present" ->
            [error |-> "Missing or empty 'categories' field.",
             value_found |-> Get(product, "categories", Null),
             field_name |-> "categories"]
      [] field = "nutri_score_valid" ->
            [error |-> "Invalid nutri-score value.",
             value_found |-> Get(product, "nutri_score", Null),
             field_name |-> "nutri_score"]
      [] field = "green_score_valid" ->
            [error |-> "Invalid green-score format.",
             value_found |-> Get(product, "green_score_letter", Null),
             field_name |-> "green_score_letter"]
      [] field = "main_nutrients_present" ->
            [error |-> "Missing required nutrients: ",
             missing |-> MissingMain(ValidAvailable(Get(product, "nutrients_100g", Map(<<>>)).m)),
             value_found |-> [t |-> "list",
                              l |-> KeysOf(Get(product, "nutrients_100g", Map(<<>>)).m)],
             field_name |-> "nutrients_100g"]

\* detailed_checks of a record that fails a check
DetailedChecks(checks, product) ==
    [c \in DOMAIN checks |->
        IF checks[c] THEN [passed |-> TRUE] ELSE GetErrorDetail(c, product)]

\* get_object and json.loads of one key, then analyze_product
AnalyzeBody(body) ==
    CASE body.kind = "object" -> AnalyzeProduct(body.v)
      [] body.kind = "array" -> Raise("AttributeError")
      [] body.kind = "text" -> Raise("JSONDecodeError")
      [] body.kind = "missing" -> Raise("ClientError")

-----------------------------------------------------------------------------
(* analyze/error_extract.py: ErrorValueExtractor *)

\* ErrorValueExtractor._standardize_text on a text: strip, U+201A -> ",",
\* U+2019 -> "'", U+2013 -> "-", NBSP -> " ", lower
StandardizeTextE(text) ==
    IF text = <<>> THEN <<>>
    ELSE Lower(ReplaceChar(ReplaceChar(ReplaceChar(ReplaceChar(Strip(text),
             "SLQUO", ","), "RSQUO", "'"), "ENDASH", "-"), "NBSP", " "))

-----------------------------------------------------------------------------
(* Bounds and input texts *)

\* longest generated text
MaxLen == 3

\* all texts over the alphabet A of length at most n
RECURSIVE TextsUpTo(_, _)
TextsUpTo(A, n) ==
    IF n = 0 THEN {<<>>}
    ELSE LET shorter == TextsUpTo(A, n - 1)
         IN shorter \cup {Append(t, c) : t \in shorter, c \in A}

\* a digit, both decimal separators, white space, unit letters of both
\* cases, a character of no class
SplitAlphabet == {"4", "0", ".", ",", " ", "g", "K", "%"}

\* "450g", "indisponible", "1,5 kg", "1.2.3g"
T_450g == <<"4", "5", "0", "g">>
T_indisponible == <<"i", "n", "d", "i", "s", "p", "o", "n", "i", "b", "l", "e">>
T_1c5_kg == <<"1", ",", "5", " ", "k", "g">>
T_1d2d3g == <<"1", ".", "2", ".", "3", "g">>

SplitTexts ==
    TextsUpTo(SplitAlphabet, MaxLen)
        \cup {T_450g, T_indisponible, T_1c5_kg, T_1d2d3g}

T_NutriScore == <<"N", "u", "t", "r", "i", "-", "S", "c", "o", "r", "e", " ">>
T_GreenScore == <<"G", "r", "e", "e", "n", "-", "S", "c", "o", "r", "e", " ">>
T_Unknown == <<"U", "n", "k", "n", "o", "w", "n">>
ScoreLetters == {"A", "B", "C", "D", "E"}

\* 'Nutri-Score X', 'Green-Score X', a bare letter of either case, texts
\* without any letter of the alphabet
ScoreTexts ==
    {T_NutriScore \o <<x>> : x \in ScoreLetters}
        \cup {T_GreenScore \o <<x>> : x \in ScoreLetters}
        \cup {<<x>> : x \in ScoreLetters}
        \cup {<<LowerChar(x)>> : x \in ScoreLetters}
        \cup {T_Unknown, <<>>, <<"?">>}
        \cup TextsUpTo({"B", "e", "x", " "}, MaxLen)

\* energy values: a number, white space, a unit, then optionally a second
\* number and unit in parentheses
EnergyNumbers ==
    {<<>>, <<"5">>, <<"1", ",", "0", "0", "8">>, <<"2", "4", "1">>, <<"1", ".", "5">>, <<"1", ".", "2", ".", "3">>, <<",">>}
EnergyUnits == {<<>>, <<"k", "j">>, <<"k", "J">>, <<"k", "c", "a", "l">>, <<"g">>}
EnergyParts ==
    {n \o sp \o u : n \in EnergyNumbers, sp \in {<<>>, <<" ">>}, u \in EnergyUnits}

\* "1,008 kj (241 kcal)" and "500 kj (120 kcal)"
T_energy_example == <<"1", ",", "0", "0", "8", " ", "k", "j", " ", "(", "2", "4", "1", " ", "k", "c", "a", "l", ")">>
T_energy_scenario == <<"5", "0", "0", " ", "k", "j", " ", "(", "1", "2", "0", " ", "k", "c", "a", "l", ")">>

EnergyTexts ==
    EnergyParts
        \cup {a \o <<" ", "(">> \o b \o <<")">> :
                a \in {<<"1", ",", "0", "0", "8", " ", "k", "j">>, <<"5", "0", "0", " ", "k", "j">>, <<"2", "4", "1", " ", "k", "c", "a", "l">>, <<"1", ",", "0", "0", "8">>, <<"k", "j">>},
                b \in {<<"2", "4", "1", " ", "k", "c", "a", "l">>, <<"1", "2", "0", " ", "k", "c", "a", "l">>, <<"1", ",", "0", "0", "8", " ", "k", "j">>, <<"2", "4", "1">>, <<"1", ".", "2", ".", "3", " ", "k", "c", "a", "l">>}}

\* the members of the raw records: the scenario of the end-to-end test and
\* values that no extraction parses
T_Salt == <<"S", "a", "l", "t">>
NutrientMaps ==
    {<< <<T_energy, Str(T_energy_scenario)>>, <<T_fat, Str(T_question)>>,
        <<T_proteins, Str(<<"3", "g">>)>> >>,
     << <<T_energy, Str(<<"1", ".", "2", ".", "3", " ", "k", "j">>)>>, <<T_proteins, Str(<<"3", "g">>)>> >>,
     << <<T_Salt, Str(<<"1", ".", ".", "2", " ", "g">>)>> >>,
     << <<T_Salt, Str(T_indisponible)>>, <<T_fat, Str(<<>>)>> >>,
     << >>}

RawFieldValues(field) ==
    CASE field = "barcode" -> {Str(<<"1", "2", "3">>)}
      [] field = "name" -> {Absent, Str(<<"Y", "o", "g", "u", "r", "t", " ", "ENDASH", " ", "V", "a", "n", "i", "l", "l", "a">>)}
      [] field = "nutri_score" -> {Absent, Null, Str(T_NutriScore \o <<"B">>)}
      [] field = "carbon_impact_per_100g" -> {Absent, Str(<<"a", "b", "c">>), Str(<<"1", ".", "5">>)}
      [] field = "serving_size" ->
            {Absent, Null, Str(T_450g), Str(T_1d2d3g), Str(T_indisponible)}
      [] field = "quantity" -> {Absent, Str(T_1c5_kg)}
      [] field = "nutrients_100g" -> {Absent, Null} \cup {Map(m) : m \in NutrientMaps}

\* a raw record: the members that are present
Present(rec) == [f \in {g \in DOMAIN rec : rec[g].t # "absent"} |-> rec[f]]

RawProducts ==
    {Present([barcode |-> b, name |-> n, nutri_score |-> ns,
              carbon_impact_per_100g |-> c, serving_size |-> ss,
              quantity |-> q, nutrients_100g |-> nu]) :
        b \in RawFieldValues("barcode"), n \in RawFieldValues("name"),
        ns \in RawFieldValues("nutri_score"),
        c \in RawFieldValues("carbon_impact_per_100g"),
        ss \in RawFieldValues("serving_size"),
        q \in RawFieldValues("quantity"),
        nu \in RawFieldValues("nutrients_100g")}

\* records given to the validator: each checked member absent, null, a
\* text or a nested mapping
NestedMapping == Map(<< <<<<"e", "n">>, Str(<<"x">>)>> >>)
T_Yogurt == <<"Y", "o", "g", "u", "r", "t">>
T_Dairy == <<"D", "a", "i", "r", "y", ",", " ", "Y", "o", "g", "u", "r", "t", "s">>
MainNutrientsMap ==
    Map(<< <<T_Energy, Str(T_energy_scenario)>>, <<T_Fat, Str(<<"3", ".", "5", " ", "g">>)>>,
           <<T_Proteins, Str(<<"3", " ", "g">>)>>, <<T_Carbohydrates, Str(<<"1", "2", " ", "g">>)>>,
           <<T_Salt_g, Str(<<"0", ".", "1", " ", "g">>)>> >>)
NoMainNutrientsMap == Map(<< <<T_Salt_g, Str(<<"0", ".", "1", " ", "g">>)>>, <<<<"I", "r", "o", "n">>, Str(<<"1", " ", "m", "g">>)>> >>)

CheckedFieldValues(field) ==
    CASE field = "name" -> {Absent, Null, Str(<<>>), Str(T_Yogurt), NestedMapping}
      [] field = "categories" ->
            {Absent, Null, Str(<<" ", " ">>), Str(T_Dairy), Map(<<>>), NestedMapping}
      [] field = "nutri_score" ->
            {Absent, Null, Str(<<"B">>), Str(<<" ", "e", " ">>), Str(<<"z">>), Str(<<"ACIRC", "EURO", "LDQUO">>), NestedMapping}
      [] field = "green_score_letter" ->
            {Absent, Null, Str(T_GreenScore \o <<"A">>), Str(<<"g", "r", "e", "e", "n", "-", "s", "c", "o", "r", "e", "ENDASH", "b">>),
             Str(T_Unknown), Map(<<>>), NestedMapping}
      [] field = "nutrients_100g" ->
            {Absent, Null, Str(T_question), Map(<<>>), MainNutrientsMap,
             NoMainNutrientsMap,
             Map(<< <<<<" ", "E", "N", "E", "R", "G", "Y">>, Str(<<>>)>>, <<<<"f", "a", "t", " ">>, Null>>,
                    <<<<"P", "r", "o", "t", "e", "i", "n", "s">>, Str(<<>>)>>, <<<<"c", "a", "r", "b", "o", "h", "y", "d", "r", "a", "t", "e", "s">>, Str(<<>>)>> >>)}

AnalyzerProducts ==
    {Present([name |-> n, categories |-> c, nutri_score |-> ns,
              green_score_letter |-> g, nutrients_100g |-> nu]) :
        n \in CheckedFieldValues("name"), c \in CheckedFieldValues("categories"),
        ns \in CheckedFieldValues("nutri_score"),
        g \in CheckedFieldValues("green_score_letter"),
        nu \in CheckedFieldValues("nutrients_100g")}

-----------------------------------------------------------------------------
(* The components that a specification leaves idle *)

Pending == [kind |-> "pending"]

FilesIdle ==
    /\ disk = EmptyMap /\ wpc = EmptyMap /\ wscan = EmptyMap
    /\ wpath = EmptyMap
    /\ wlog = EmptyMap /\ nwrites = 0

PureIdle == fn = "none" /\ fn_in = <<>> /\ fn_out = Pending

ValidIdle ==
    /\ store = EmptyMap /\ vpc = "off" /\ vkeys = <<>> /\ vi = 0
    /\ results = EmptyMap /\ valids = EmptyMap /\ errors = EmptyMap
    /\ failed_files = <<>> /\ folder_counts = EmptyMap /\ summary = None

NumIdle ==
    /\ nstore = <<>> /\ npc = "off" /\ nkeys = <<>> /\ ni = 0
    /\ raw_results = EmptyMap /\ numbers_results = EmptyMap
    /\ units_results = EmptyMap /\ ncalls = 0

NoFile == [exists |-> FALSE]

ExtractIdle ==
    /\ epc = "off" /\ errors_path = <<>> /\ loaded_errors = EmptyMap
    /\ final_result = EmptyMap /\ last_run = <<>>

ScrapeIdle ==
    /\ spc = "off" /\ checkpoint_file = NoFile /\ current_page = 0
    /\ barcodes = {} /\ already_uploaded = {} /\ barcodes_list = <<>>
    /\ si = 0 /\ s3 = {} /\ s3_at_start = {} /\ uploaded = <<>>
    /\ interrupted_at = NoFile

-----------------------------------------------------------------------------
(* The versioned report files: _get_next_versioned_filename and the write  *)
(* that follows it, in analyze_num.py, product_analyzer.py and             *)
(* error_extract.py.  A path <<family, suffix>> stands for the file        *)
(* <family>_<suffix>.json of the family's directory.                       *)

\* saves in one behaviour
MaxWrites == 4

Families == {"numeric_format_raw", "products_with_errors"}
Writers == {"w1"}

RECURSIVE DigitsOf(_)
DigitsOf(n) ==
    IF n < 10 THEN <<Digits[n + 1]>>
    ELSE Append(DigitsOf(n \div 10), Digits[(n % 10) + 1])

RECURSIVE PadZeros(_, _)
PadZeros(s, width) == IF Len(s) < width THEN PadZeros(<<"0">> \o s, width) ELSE s

\* f"{counter:04d}"
Fmt04(counter) == PadZeros(DigitsOf(counter), 4)

\* the loop of _get_next_versioned_filename: while os.path.exists(new_path)
RECURSIVE NextVersionedFrom(_, _, _)
NextVersionedFrom(existing, family, counter) ==
    IF <<family, Fmt04(counter)>> \in existing
    THEN NextVersionedFrom(existing, family, counter + 1)
    ELSE <<family, Fmt04(counter)>>

\* the scan without its loop: the first candidate is returned unchecked
GetNextVersionedFilename_NoScan(existing, family) == <<family, Fmt04(0)>>

\* _get_next_versioned_filename, given the paths that exist
GetNextVersionedFilename(existing, family) ==
    NextVersionedFrom(existing, family, 0)

\* rm: the directory without the path p
Without(d, p) == [q \in DOMAIN d \ {p} |-> d[q]]

InitFiles ==
    /\ ExtractIdle /\ ScrapeIdle
    /\ disk = EmptyMap
    /\ wpc = [w \in Writers |-> "idle"]
    /\ wscan = [w \in Writers |-> 0]
    /\ wpath = [w \in Writers |-> <<>>]
    /\ wlog = [f \in Families |-> <<>>]
    /\ nwrites = 0
    /\ PureIdle /\ ValidIdle /\ NumIdle

\* _save_json, first half: versioned_path = _get_next_versioned_filename(path)
SelectPath(w, family) ==
    /\ wpc[w] = "idle"
    /\ nwrites < MaxWrites
    /\ wpath' = [wpath EXCEPT ![w] = GetNextVersionedFilename(DOMAIN disk, family)]
    /\ wpc' = [wpc EXCEPT ![w] = "write"]
    /\ wscan' = [wscan EXCEPT ![w] = nwrites]
    /\ UNCHANGED <<disk, wlog, nwrites, pureVars, validVars, numVars,
                 extractVars, scrapeVars>>

\* _save_json, second half: open(versioned_path, "w") and json.dump; the
\* content of the snapshot is the number of the save
WriteFile(w) ==
    /\ wpc[w] = "write"
    /\ disk' = Put(disk, wpath[w], nwrites + 1)
    /\ nwrites' = nwrites + 1
    /\ wlog' = [wlog EXCEPT ![wpath[w][1]] = Append(@, wpath[w][2])]
    /\ wpc' = [wpc EXCEPT ![w] = "idle"]
    /\ UNCHANGED <<wscan, wpath, pureVars, validVars, numVars,
                 extractVars, scrapeVars>>

\* a snapshot is removed from the directory between two saves; the
\* succession of writes of its family starts again
RemoveSnapshot(p) ==
    /\ \A w \in DOMAIN wpc : wpc[w] = "idle"
    /\ p \in DOMAIN disk
    /\ disk' = Without(disk, p)
    /\ wlog' = [wlog EXCEPT ![p[1]] = <<>>]
    /\ UNCHANGED <<wpc, wscan, wpath, nwrites, pureVars, validVars, numVars,
                 extractVars, scrapeVars>>

NextFiles ==
    \/ \E w \in DOMAIN wpc, f \in Families : SelectPath(w, f)
    \/ \E w \in DOMAIN wpc : WriteFile(w)
    \/ \E p \in DOMAIN disk : RemoveSnapshot(p)

SpecFiles == InitFiles /\ [][NextFiles]_vars

\* two processes save into the same directories with no lock: every
\* interleaving of their scans and writes
ConcurrentWriters == {"w1", "w2"}

InitFilesConcurrent ==
    /\ ExtractIdle /\ ScrapeIdle
    /\ disk = EmptyMap
    /\ wpc = [w \in ConcurrentWriters |-> "idle"]
    /\ wscan = [w \in ConcurrentWriters |-> 0]
    /\ wpath = [w \in ConcurrentWriters |-> <<>>]
    /\ wlog = [f \in Families |-> <<>>]
    /\ nwrites = 0
    /\ PureIdle /\ ValidIdle /\ NumIdle

SpecFilesConcurrent == InitFilesConcurrent /\ [][NextFiles]_vars

-----------------------------------------------------------------------------
(* SpecValidate: ProductAnalyzer.analyze_all_products over a bucket.  The  *)
(* bucket maps a key to what get_object and json.loads give for it.        *)

\* calls of analyze_all_products in one behaviour
MaxRuns == 2

T_openfoodfacts == <<"o", "p", "e", "n", "f", "o", "o", "d", "f", "a", "c", "t", "s">>
T_EAN8 == <<"E", "A", "N", "8">>
T_EAN13 == <<"E", "A", "N", "1", "3">>
T_dot_json == <<".", "j", "s", "o", "n">>
FolderNames == <<T_EAN8, T_EAN13>>

\* f"openfoodfacts/{folder}/"
PrefixOf(folder) == T_openfoodfacts \o <<"/">> \o folder \o <<"/">>

\* str.endswith
EndsWith(s, suffix) ==
    /\ Len(suffix) <= Len(s)
    /\ SubSeq(s, Len(s) - Len(suffix) + 1, Len(s)) = suffix

\* str.split(sep) for a one-character separator
RECURSIVE SplitFrom(_, _, _, _)
SplitFrom(s, sep, i, part) ==
    IF i > Len(s) THEN <<part>>
    ELSE IF s[i] = sep THEN <<part>> \o SplitFrom(s, sep, i + 1, <<>>)
    ELSE SplitFrom(s, sep, i + 1, Append(part, s[i]))

SplitOn(s, sep) == SplitFrom(s, sep, 1, <<>>)

\* target_folders of NumericFormatAnalyzer
TargetFolders ==
    <<T_openfoodfacts \o <<"t", "r", "a", "n", "s", "f", "o", "r", "m", "e", "d", "/", "E", "A", "N", "8", "/">>, T_openfoodfacts \o <<"t", "r", "a", "n", "s", "f", "o", "r", "m", "e", "d", "/", "E", "A", "N", "1", "3", "/">>>>

\* the keys a bucket can hold, in the order list_objects_v2 returns them
BucketOrder ==
    <<PrefixOf(T_EAN13) \o <<"3", ".", "j", "s", "o", "n">>, PrefixOf(T_EAN13) \o <<"n", "o", "t", "e", "s", ".", "t", "x", "t">>,
      PrefixOf(T_EAN8) \o <<"1", ".", "j", "s", "o", "n">>, PrefixOf(T_EAN8) \o <<"2", ".", "j", "s", "o", "n">>,
      TargetFolders[2] \o <<"3", ".", "j", "s", "o", "n">>, TargetFolders[1] \o <<"1", ".", "j", "s", "o", "n">>>>

\* S3Manager.list: the keys under the prefix, or [] when the listing fails
S3List(bucket, prefix, listing_ok) ==
    IF listing_ok
    THEN SelectSeq(BucketOrder,
                   LAMBDA k : k \in DOMAIN bucket /\ StartsWith(k, prefix))
    ELSE <<>>

JsonKeysOf(listed) == SelectSeq(listed, LAMBDA k : EndsWith(k, T_dot_json))

\* list_all_json_keys: folder EAN8, then folder EAN13
ListAllJsonKeys(bucket, listing_ok) ==
    JsonKeysOf(S3List(bucket, PrefixOf(FolderNames[1]), listing_ok[1]))
        \o JsonKeysOf(S3List(bucket, PrefixOf(FolderNames[2]), listing_ok[2]))

CountFolder(folder_counts_, parts) ==
    IF Len(parts) > 1
    THEN Put(folder_counts_, parts[2], Get(folder_counts_, parts[2], 0) + 1)
    ELSE folder_counts_

\* the count without its accumulation: a folder is marked, not counted
CountKey_Mark(folder_counts_, key) ==
    Put(folder_counts_, SplitOn(key, "/")[2], 1)

\* count_products_per_folder, the body of its loop
CountKey(folder_counts_, key) ==
    CountFolder(folder_counts_, SplitOn(key, "/"))

RECURSIVE CountFrom(_, _, _)
CountFrom(keys, i, folder_counts_) ==
    IF i > Len(keys) THEN folder_counts_
    ELSE CountFrom(keys, i + 1, CountKey(folder_counts_, keys[i]))

\* count_products_per_folder
CountProductsPerFolder(keys) == CountFrom(keys, 1, EmptyMap)

\* the except branch without its append
FailedAppend_Drop(failed_files_, key) == failed_files_

\* failed_files.append(key)
FailedAppend(failed_files_, key) == Append(failed_files_, key)

\* all(checks.values())
AllChecks(checks) == \A c \in DOMAIN checks : checks[c]

\* one iteration of the loop of analyze_all_products, on the outcome r of
\* the fetch, the parse and analyze_product: the dictionaries after it
Recorded(key, r, content) ==
    IF r.kind = "raise"
    THEN [results |-> results, valids |-> valids, errors |-> errors,
          failed_files |-> FailedAppend(failed_files, key)]
    ELSE IF AllChecks(r.v)
    THEN [results |-> Put(results, key, r.v), valids |-> Put(valids, key, r.v),
          errors |-> errors, failed_files |-> failed_files]
    ELSE [results |-> Put(results, key, r.v), valids |-> valids,
          errors |-> Put(errors, key, DetailedChecks(r.v, content.v)),
          failed_files |-> failed_files]

\* the summary report of _save_results
SummaryOf(valids_, errors_, all_results, failed_files_, folder_counts_) ==
    [total_products_analyzed |-> Cardinality(DOMAIN all_results),
     products_all_valid |-> Cardinality(DOMAIN valids_),
     products_with_errors |-> Cardinality(DOMAIN errors_),
     products_failed_to_analyze |-> Len(failed_files_),
     products_per_folder |-> folder_counts_]

\* a report written under the next versioned name of its family
SaveReport(d, family, content) ==
    Put(d, GetNextVersionedFilename(DOMAIN d, family), content)

SaveFailed(d, failed_files_) ==
    IF failed_files_ # <<>>
    THEN SaveReport(d, "products_failed_to_analyze", failed_files_)
    ELSE d

\* _save_results: the directory after the three or four reports
SaveResults(d, valids_, errors_, all_results, failed_files_, folder_counts_) ==
    SaveFailed(
        SaveReport(
            SaveReport(SaveReport(d, "products_all_valid", valids_),
                       "products_with_errors", errors_),
            "products_summary",
            SummaryOf(valids_, errors_, all_results, failed_files_, folder_counts_)),
        failed_files_)

\* the buckets: every key holds an object that cannot be fetched, a text
\* that is not JSON, a JSON array, or a JSON object
ValidProduct ==
    [name |-> Str(T_Yogurt), categories |-> Str(T_Dairy), nutri_score |-> Str(<<"B">>),
     green_score_letter |-> Str(T_GreenScore \o <<"A">>),
     nutrients_100g |-> MainNutrientsMap]
ProductWithErrors ==
    [name |-> Str(T_Yogurt), nutri_score |-> Str(<<"z">>),
     nutrients_100g |-> NoMainNutrientsMap]
ProductNullNutrients == [name |-> Str(T_Yogurt), nutrients_100g |-> Null]
Bodies ==
    {[kind |-> "missing"], [kind |-> "text"], [kind |-> "array"],
     [kind |-> "object", v |-> ValidProduct],
     [kind |-> "object", v |-> ProductWithErrors],
     [kind |-> "object", v |-> ProductNullNutrients]}
JsonKeys == {BucketOrder[1], BucketOrder[3], BucketOrder[4]}
Buckets ==
    {Put(b, BucketOrder[2], [kind |-> "text"]) :
        b \in UNION {[ks -> Bodies] : ks \in SUBSET JsonKeys}}

RunsDone == Cardinality({p \in DOMAIN disk : p[1] = "products_summary"})

InitValid ==
    /\ ExtractIdle /\ ScrapeIdle
    /\ store \in Buckets
    /\ vpc = "idle" /\ vkeys = <<>> /\ vi = 0
    /\ results = EmptyMap /\ valids = EmptyMap /\ errors = EmptyMap
    /\ failed_files = <<>> /\ folder_counts = EmptyMap /\ summary = None
    /\ disk = EmptyMap /\ wpc = EmptyMap /\ wscan = EmptyMap
    /\ wpath = EmptyMap
    /\ wlog = EmptyMap /\ nwrites = 0
    /\ PureIdle /\ NumIdle

\* the end of analyze_all_products: _save_results and the return
Finish(acc, counts) ==
    /\ disk' = SaveResults(disk, acc.valids, acc.errors, acc.results,
                           acc.failed_files, counts)
    /\ summary' = SummaryOf(acc.valids, acc.errors, acc.results,
                            acc.failed_files, counts)
    /\ vpc' = "done"

\* the next iteration, or the end of the loop
Advance(acc, next_i, last, counts) ==
    /\ results' = acc.results /\ valids' = acc.valids
    /\ errors' = acc.errors /\ failed_files' = acc.failed_files
    /\ vi' = next_i
    /\ IF last THEN Finish(acc, counts)
       ELSE vpc' = "loop" /\ UNCHANGED <<disk, summary>>

Begin(keys, counts) ==
    /\ vkeys' = keys /\ folder_counts' = counts
    /\ Advance([results |-> EmptyMap, valids |-> EmptyMap, errors |-> EmptyMap,
                failed_files |-> <<>>], 1, keys = <<>>, counts)

BeginWith(keys) == Begin(keys, CountProductsPerFolder(keys))

\* analyze_all_products up to its loop: the listing, the folder counts and
\* the empty dictionaries; with no key listed the loop is skipped and the
\* reports are saved
AnalyzeAllStart ==
    /\ vpc \in {"idle", "done"}
    /\ RunsDone < MaxRuns
    /\ \E listing_ok \in [{1, 2} -> BOOLEAN] :
            BeginWith(ListAllJsonKeys(store, listing_ok))
    /\ UNCHANGED <<store, wpc, wscan, wpath, wlog, nwrites, pureVars, numVars,
                 extractVars, scrapeVars>>

AnalyzeKey(key, content) ==
    Advance(Recorded(key, AnalyzeBody(content), content), vi + 1,
            vi = Len(vkeys), folder_counts)

\* one iteration of the loop of analyze_all_products; after the last key,
\* _save_results
AnalyzeNext ==
    /\ vpc = "loop"
    /\ AnalyzeKey(vkeys[vi], store[vkeys[vi]])
    /\ UNCHANGED <<store, vkeys, folder_counts, wpc, wscan, wpath, wlog, nwrites,
                   pureVars, numVars,
                 extractVars, scrapeVars>>

NextValid == AnalyzeAllStart \/ AnalyzeNext

SpecValidate == InitValid /\ [][NextValid]_vars

\* a step of the loop: AnalyzeNext is such a step, and it can be taken
\* whenever the call is in its loop
LoopStep == vpc = "loop" /\ vi' = vi + 1

\* the interpreter runs a call that has started to its return
SpecValidateFair == SpecValidate /\ WF_vi(LoopStep)

-----------------------------------------------------------------------------
(* analyze/analyze_num.py: NumericFormatAnalyzer *)

ParenClose(s, i, closes) ==
    IF closes = {} THEN 0 ELSE Least(closes)

\* the end of a match of \s*\([^)]*\) that starts at s[i], or 0: open is the
\* position after the white space
ParenMatchEnd(s, i, open) ==
    IF open <= Len(s) /\ s[open] = "("
    THEN ParenClose(s, i, {j \in (open + 1)..Len(s) : s[j] = ")"})
    ELSE 0

RECURSIVE StripParensFrom(_, _)
StripParensStep(s, i, end) ==
    IF end > 0 THEN StripParensFrom(s, end + 1)
    ELSE <<s[i]>> \o StripParensFrom(s, i + 1)

StripParensFrom(s, i) ==
    IF i > Len(s) THEN <<>>
    ELSE StripParensStep(s, i, ParenMatchEnd(s, i, i + RunLen(s, i, IsSpace)))

\* re.sub(r"\s*\([^)]*\)", "", text)
StripParens(s) == StripParensFrom(s, 1)

\* NumericFormatAnalyzer._standardize_text
StandardizeTextN(text) ==
    IF text = <<>> THEN <<>> ELSE StripParens(Strip(Lower(text)))

\* _load_reference: the standardized names of the reference file
ReferenceNutrientsN == {StandardizeTextN(ReferenceFile[i]) : i \in DOMAIN ReferenceFile}

RECURSIVE NumbersFrom(_, _)
NumberWithFraction(s, i, n, m) ==
    <<SubSeq(s, i, i + n + m)>> \o NumbersFrom(s, i + n + m + 1)

\* a token of \d+(?:\.\d+)? whose integer part is the n digits from s[i]
NumberToken(s, i, n) ==
    IF i + n + 1 <= Len(s) /\ s[i + n] = "." /\ IsDigit(s[i + n + 1])
    THEN NumberWithFraction(s, i, n, RunLen(s, i + n + 1, IsDigit))
    ELSE <<SubSeq(s, i, i + n - 1)>> \o NumbersFrom(s, i + n)

NumbersFrom(s, i) ==
    IF i > Len(s) THEN <<>>
    ELSE IF IsDigit(s[i]) THEN NumberToken(s, i, RunLen(s, i, IsDigit))
    ELSE NumbersFrom(s, i + 1)

RECURSIVE UnitsFrom(_, _)
UnitToken(s, i, n) == <<SubSeq(s, i, i + n - 1)>> \o UnitsFrom(s, i + n)

UnitsFrom(s, i) ==
    IF i > Len(s) THEN <<>>
    ELSE IF IsUnitLetter(s[i]) THEN UnitToken(s, i, RunLen(s, i, IsUnitLetter))
    ELSE UnitsFrom(s, i + 1)

FindIn(text) == [numbers |-> NumbersFrom(text, 1), units |-> UnitsFrom(text, 1)]

\* _find_numbers_and_units: re.findall of the numbers and of the units
\* after "," -> "."
FindNumbersAndUnits(text) ==
    IF text = <<>> THEN [numbers |-> <<>>, units |-> <<>>]
    ELSE FindIn(ReplaceChar(text, ",", "."))

T_serving_size == <<"s", "e", "r", "v", "i", "n", "g", "_", "s", "i", "z", "e">>
T_quantity == <<"q", "u", "a", "n", "t", "i", "t", "y">>
T_unknown == <<"u", "n", "k", "n", "o", "w", "n">>

\* the three accumulators of the analyzer
Accumulators(raw, numbers, units) ==
    [raw_results |-> raw, numbers_results |-> numbers, units_results |-> units]

NumbersEntry(cur, numbers, barcode, value_str) ==
    IF numbers # <<>>
    THEN [numbers_found |-> cur.numbers_found \o numbers, missing |-> cur.missing]
    ELSE [numbers_found |-> cur.numbers_found,
          missing |-> Put(cur.missing, barcode, value_str)]

\* one joint outcome instead: a value that holds a number is not a units
\* failure
UnitsEntry_Joint(cur, units, barcode, value_str) ==
    IF units # <<>> \/ \E i \in DOMAIN value_str : IsDigit(value_str[i])
    THEN [units_found |-> cur.units_found \o units, missing |-> cur.missing]
    ELSE [units_found |-> cur.units_found,
          missing |-> Put(cur.missing, barcode, value_str)]

UnitsEntry(cur, units, barcode, value_str) ==
    IF units # <<>>
    THEN [units_found |-> cur.units_found \o units, missing |-> cur.missing]
    ELSE [units_found |-> cur.units_found,
          missing |-> Put(cur.missing, barcode, value_str)]

\* the lines that _analyze_nutrients and _analyze_field share: the raw
\* value is appended, the tokens extend the found lists, and a value
\* without token is stored under the barcode
Tally(acc, section, value_str, barcode, found) ==
    Accumulators(
        Put(acc.raw_results, section,
            Append(Get(acc.raw_results, section, <<>>), value_str)),
        Put(acc.numbers_results, section,
            NumbersEntry(Get(acc.numbers_results, section,
                             [numbers_found |-> <<>>, missing |-> EmptyMap]),
                         found.numbers, barcode, value_str)),
        Put(acc.units_results, section,
            UnitsEntry(Get(acc.units_results, section,
                           [units_found |-> <<>>, missing |-> EmptyMap]),
                       found.units, barcode, value_str)))

\* _analyze_field
AnalyzeField(acc, field_name, value, barcode) ==
    IF Truthy(value)
    THEN Tally(acc, field_name, value.s, barcode, FindNumbersAndUnits(value.s))
    ELSE acc

NutrientTally(acc, standardized, value, barcode) ==
    IF standardized \in ReferenceNutrientsN
    THEN Tally(acc, standardized, value.s, barcode, FindNumbersAndUnits(value.s))
    ELSE acc

\* _analyze_nutrients, the body of its loop
AnalyzeNutrient(acc, nutrient, value, barcode) ==
    IF Truthy(value)
    THEN NutrientTally(acc, StandardizeTextN(nutrient), value, barcode)
    ELSE acc

RECURSIVE AnalyzeNutrientsFrom(_, _, _, _)
AnalyzeNutrientsFrom(acc, nutrients, i, barcode) ==
    IF i > Len(nutrients) THEN acc
    ELSE AnalyzeNutrientsFrom(
            AnalyzeNutrient(acc, nutrients[i][1], nutrients[i][2], barcode),
            nutrients, i + 1, barcode)

\* _analyze_nutrients
AnalyzeNutrients(acc, nutrients, barcode) ==
    AnalyzeNutrientsFrom(acc, nutrients, 1, barcode)

\* the try block of analyze_all for a record with the given barcode:
\* nutrients_100g, then serving_size, then quantity; nutrients that are
\* not a mapping have no items() and the exception ends the record
AnalyzeFields(acc, product, nutrients, barcode) ==
    IF nutrients.t = "map"
    THEN AnalyzeField(
            AnalyzeField(AnalyzeNutrients(acc, nutrients.m, barcode),
                         T_serving_size,
                         Get(product, "serving_size", Str(<<>>)), barcode),
            T_quantity, Get(product, "quantity", Str(<<>>)), barcode)
    ELSE acc

\* one iteration of the loop of analyze_all: the accumulators after it
AnalyzeRecord(acc, body) ==
    IF body.kind = "object"
    THEN AnalyzeFields(acc, body.v, Get(body.v, "nutrients_100g", Map(<<>>)),
                       Get(body.v, "barcode", Str(T_unknown)).s)
    ELSE acc

\* the characters in the order of their code points
CodePoints ==
    <<"TAB", "NL", " ", "%", "'", "(", ")", ",", "-", ".", "/">> \o Digits
        \o <<"?">> \o UpperSeq \o <<"_">> \o LowerSeq
        \o <<"NBSP", "MICRO", "CAP_ACIRC", "ACIRC", "CAP_SCARON", "SCARON",
             "ENDASH", "RSQUO", "SLQUO", "LDQUO", "EURO", "TM">>

Ord(c) == CHOOSE i \in DOMAIN CodePoints : CodePoints[i] = c

\* a < b for two texts
RECURSIVE TextLess(_, _)
TextLess(a, b) ==
    IF a = <<>> THEN b # <<>>
    ELSE IF b = <<>> THEN FALSE
    ELSE IF a[1] = b[1] THEN TextLess(Tail(a), Tail(b))
    ELSE Ord(a[1]) < Ord(b[1])

RECURSIVE SortedSet(_)
SortedFrom(S, least) == <<least>> \o SortedSet(S \ {least})

\* sorted(list(set(...)))
SortedSet(S) ==
    IF S = {} THEN <<>>
    ELSE SortedFrom(S, CHOOSE a \in S : \A b \in S \ {a} : TextLess(a, b))

\* _save_all_reports without its first part: the lists are saved as
\* accumulated
Deduplicated_AsAccumulated(acc) == acc

\* _save_all_reports, first part: the lists are deduplicated and sorted
Deduplicated(acc) ==
    Accumulators(
        [k \in DOMAIN acc.raw_results |-> SortedSet(Range(acc.raw_results[k]))],
        [k \in DOMAIN acc.numbers_results |->
            [numbers_found |-> SortedSet(Range(acc.numbers_results[k].numbers_found)),
             missing |-> acc.numbers_results[k].missing]],
        [k \in DOMAIN acc.units_results |->
            [units_found |-> SortedSet(Range(acc.units_results[k].units_found)),
             missing |-> acc.units_results[k].missing]])

\* _save_all_reports, second part: the five reports, each through _save_json
SaveAllReports(d, acc) ==
    SaveReport(
        SaveReport(
            SaveReport(
                SaveReport(
                    SaveReport(d, "numeric_format_raw", acc.raw_results),
                    "numeric_format_numbers",
                    [k \in DOMAIN acc.numbers_results |->
                        acc.numbers_results[k].numbers_found]),
                "missing_numbers_by_barcode",
                [k \in DOMAIN acc.numbers_results |-> acc.numbers_results[k].missing]),
            "numeric_format_units",
            [k \in DOMAIN acc.units_results |-> acc.units_results[k].units_found]),
        "missing_units_by_barcode",
        [k \in DOMAIN acc.units_results |-> acc.units_results[k].missing])

-----------------------------------------------------------------------------
(* SpecPure: one call of a function of ProductTransformer on an argument   *)
(* drawn from the input sets above.                                        *)

\* texts given to the standardizers: the characters they replace, their
\* capitals, white space and letters
StandardizeAlphabet ==
    {"CAP_ACIRC", "ACIRC", "EURO", "SCARON", "CAP_SCARON", "TM", "SLQUO",
     "RSQUO", "NBSP", " ", "A"}
StandardizeTexts == TextsUpTo(StandardizeAlphabet, MaxLen)

\* texts with parenthesized groups at the start, in the middle and at the end
ParenParts ==
    {<<>>, <<"(", "a", ")">>, <<" ">>, <<"b">>, <<"(">>, <<")">>, <<"B", " ", "(", "g">>}
ParenTexts == {x \o y \o z : x \in ParenParts, y \in ParenParts, z \in ParenParts}

\* records given to one check of the validator: nutrient mappings with
\* every subset of the main nutrients, with and without other entries
T_Energy_kj == <<"E", "n", "e", "r", "g", "y", " ", "(", "k", "j", ")">>
NutrientEntries ==
    << <<T_Salt_g, Str(<<"0", ".", "1", " ", "g">>)>>, <<T_Energy, Str(T_energy_scenario)>>,
       <<T_Fat, Str(<<"3", ".", "5", " ", "g">>)>>, <<T_Energy_kj, Str(<<"5", "0", "0">>)>>,
       <<T_Proteins, Null>>, <<T_Carbohydrates, Str(<<"1", "2", " ", "g">>)>> >>
SubsetMaps ==
    {Map(SelectSeq(NutrientEntries, LAMBDA e : e[1] \in S)) :
        S \in SUBSET {NutrientEntries[i][1] : i \in DOMAIN NutrientEntries}}
MainNutrientRecords ==
    {Present([name |-> Str(T_Yogurt), nutrients_100g |-> nu]) :
        nu \in CheckedFieldValues("nutrients_100g") \cup SubsetMaps}

T_Green_Score_A == <<"G", "r", "e", "e", "n", "-", "S", "c", "o", "r", "e", " ", "A">>
T_Green_Space_Score_A == <<"G", "r", "e", "e", "n", " ", "S", "c", "o", "r", "e", " ", "A">>
GreenScoreValues ==
    CheckedFieldValues("green_score_letter")
        \cup {Str(T_Green_Space_Score_A), Str(<<"g", "r", "e", "e", "n", "-", "s", "c", "o", "r", "e", " ">>), Str(<<"G", "r", "e", "e", "n", "-", "S", "c", "o", "r", "e", " ", "F">>),
              Str(<<" ", "G", "R", "E", "E", "N", "-", "S", "C", "O", "R", "E", "NBSP", "E", " ">>),
              Str(<<"g", "r", "e", "e", "n", "-", "s", "c", "o", "r", "e", " ", "x", "a">>), Str(<<"a">>), Str(<<>>), Str(<<"G", "r", "e", "e", "n", "-", "S", "c", "o", "r", "e">>)}
GreenScoreRecords == {Present([green_score_letter |-> g]) : g \in GreenScoreValues}

NutriScoreValues ==
    CheckedFieldValues("nutri_score")
        \cup {Str(<<"A">>), Str(<<"f">>), Str(<<"a", "b">>), Str(<<>>), Str(<<"N", "u", "t", "r", "i", "-", "S", "c", "o", "r", "e", " ", "B">>),
              Str(<<"NBSP", "c", "TAB">>), Map(<<>>)}
NutriScoreRecords == {Present([nutri_score |-> ns]) : ns \in NutriScoreValues}

\* _get_error_detail is called for a check that returned False
FailedChecks ==
    {[field |-> "main_nutrients_present", product |-> p] :
        p \in {q \in MainNutrientRecords : CheckMainNutrientsPresent(q) = Ok(FALSE)}}
    \cup {[field |-> "green_score_valid", product |-> p] :
        p \in {q \in GreenScoreRecords : CheckGreenScoreValid(q) = Ok(FALSE)}}
    \cup {[field |-> "nutri_score_valid", product |-> p] :
        p \in {q \in NutriScoreRecords : CheckNutriScoreValid(q) = Ok(FALSE)}}
    \cup {[field |-> f, product |-> [nutri_score |-> Str(<<"B">>)]] :
        f \in {"name_present", "categories_present"}}

\* raw nutrient mappings of one entry: names with and without a
\* parenthesized suffix, values that parse, that do not, '?', empty and null
T_Proteins_g == <<"P", "r", "o", "t", "e", "i", "n", "s", " ", "(", "g", ")">>
T_3d5_g == <<"3", ".", "5", " ", "g">>
RawNutrientNames == {T_Proteins_g, T_Energy_kj, T_Salt_g, T_Fat, T_Energy}
RawNutrientValues ==
    {Null, Str(<<>>), Str(T_question), Str(T_3d5_g), Str(T_energy_scenario),
     Str(T_indisponible), Str(<<"1", "2">>), Str(T_1d2d3g), Str(<<"5", " ", "M", "g">>)}
RawNutrients ==
    {<< <<name, v>> >> : name \in RawNutrientNames, v \in RawNutrientValues}
        \cup NutrientMaps

\* values of a tracked field: with and without a number, with and without
\* a unit, empty and null
T_12 == <<"1", "2">>
NumericValues ==
    {Null, Str(<<>>), Str(T_450g), Str(T_1c5_kg), Str(T_question),
     Str(T_indisponible), Str(T_12), Str(T_1d2d3g), Str(<<"5", " ", "MICRO", "g">>)}
NumericBarcodes == {T_unknown, <<"1", "2", "3">>}
NoAccumulators == Accumulators(EmptyMap, EmptyMap, EmptyMap)

\* the accumulators when the value arrives: empty, or holding one earlier
\* value of a field
PriorAccumulators ==
    {NoAccumulators}
        \cup {AnalyzeField(NoAccumulators, section, Str(v), <<"1", "2", "3">>) :
                section \in {T_serving_size, <<"s", "a", "l", "t">>},
                v \in {T_12, T_question, T_1c5_kg}}
AnalyzeFieldCalls ==
    [acc : PriorAccumulators, field_name : {T_serving_size, T_quantity},
     value : NumericValues, barcode : NumericBarcodes]
AnalyzeNutrientsCalls ==
    [acc : PriorAccumulators,
     nutrients : {<< <<name, v>> >> :
                    name \in {T_Salt, T_Salt_g, T_Energy_kj, <<"I", "r", "o", "n">>},
                    v \in NumericValues},
     barcode : NumericBarcodes]

InitPure ==
    /\ ExtractIdle /\ ScrapeIdle
    /\ fn_out = Pending
    /\ \/ fn = "_split_quantity_and_unit" /\ fn_in \in SplitTexts
       \/ fn = "_extract_score_letter" /\ fn_in \in ScoreTexts
       \/ /\ fn = "_transform_nutrients"
          /\ fn_in \in {<< <<T_energy, Str(v)>> >> : v \in EnergyTexts}
                        \cup RawNutrients
       \/ fn = "_transform_product" /\ fn_in \in RawProducts
       \/ fn = "_transform_product (objects)" /\ fn_in \in RawProducts
       \/ fn = "analyze_product" /\ fn_in \in AnalyzerProducts
       \/ /\ fn \in {"ProductTransformer._standardize_text",
                     "ProductAnalyzer._standardize_text",
                     "ErrorValueExtractor._standardize_text"}
          /\ fn_in \in StandardizeTexts
       \/ fn = "NumericFormatAnalyzer._standardize_text" /\ fn_in \in ParenTexts
       \/ fn = "_check_nutri_score_valid" /\ fn_in \in NutriScoreRecords
       \/ fn = "_check_green_score_valid" /\ fn_in \in GreenScoreRecords
       \/ fn = "_check_main_nutrients_present" /\ fn_in \in MainNutrientRecords
       \/ fn = "_get_error_detail" /\ fn_in \in FailedChecks
       \/ fn = "_analyze_field" /\ fn_in \in AnalyzeFieldCalls
       \/ fn = "_analyze_nutrients" /\ fn_in \in AnalyzeNutrientsCalls
    /\ FilesIdle /\ ValidIdle /\ NumIdle

Call_split_quantity_and_unit ==
    /\ fn = "_split_quantity_and_unit" /\ fn_out = Pending
    /\ fn_out' = SplitQuantityAndUnit(fn_in)
    /\ UNCHANGED <<fn, fn_in, fileVars, validVars, numVars,
                 extractVars, scrapeVars>>

Call_extract_score_letter ==
    /\ fn = "_extract_score_letter" /\ fn_out = Pending
    /\ fn_out' = ExtractScoreLetter(fn_in)
    /\ UNCHANGED <<fn, fn_in, fileVars, validVars, numVars,
                 extractVars, scrapeVars>>

Call_transform_nutrients ==
    /\ fn = "_transform_nutrients" /\ fn_out = Pending
    /\ fn_out' = TransformNutrients(fn_in)
    /\ UNCHANGED <<fn, fn_in, fileVars, validVars, numVars,
                 extractVars, scrapeVars>>

Call_transform_product ==
    /\ fn = "_transform_product" /\ fn_out = Pending
    /\ fn_out' = TransformProduct(fn_in)
    /\ UNCHANGED <<fn, fn_in, fileVars, validVars, numVars,
                 extractVars, scrapeVars>>

Call_transform_product_objects ==
    /\ fn = "_transform_product (objects)" /\ fn_out = Pending
    /\ fn_out' = TransformProductObjects(fn_in)
    /\ UNCHANGED <<fn, fn_in, fileVars, validVars, numVars,
                 extractVars, scrapeVars>>

Call_analyze_product ==
    /\ fn = "analyze_product" /\ fn_out = Pending
    /\ fn_out' = AnalyzeProduct(fn_in)
    /\ UNCHANGED <<fn, fn_in, fileVars, validVars, numVars,
                 extractVars, scrapeVars>>

TextResult(v) == [kind |-> "text", v |-> v]

Call_standardize_text_transformer ==
    /\ fn = "ProductTransformer._standardize_text" /\ fn_out = Pending
    /\ fn_out' = TextResult(StandardizeTextT(fn_in))
    /\ UNCHANGED <<fn, fn_in, fileVars, validVars, numVars,
                 extractVars, scrapeVars>>

Call_standardize_text_analyzer ==
    /\ fn = "ProductAnalyzer._standardize_text" /\ fn_out = Pending
    /\ fn_out' = TextResult(StandardizeTextA(fn_in))
    /\ UNCHANGED <<fn, fn_in, fileVars, validVars, numVars,
                 extractVars, scrapeVars>>

Call_standardize_text_extractor ==
    /\ fn = "ErrorValueExtractor._standardize_text" /\ fn_out = Pending
    /\ fn_out' = TextResult(StandardizeTextE(fn_in))
    /\ UNCHANGED <<fn, fn_in, fileVars, validVars, numVars,
                 extractVars, scrapeVars>>

Call_standardize_text_numeric ==
    /\ fn = "NumericFormatAnalyzer._standardize_text" /\ fn_out = Pending
    /\ fn_out' = TextResult(StandardizeTextN(fn_in))
    /\ UNCHANGED <<fn, fn_in, fileVars, validVars, numVars,
                 extractVars, scrapeVars>>

Call_check_nutri_score_valid ==
    /\ fn = "_check_nutri_score_valid" /\ fn_out = Pending
    /\ fn_out' = CheckNutriScoreValid(fn_in)
    /\ UNCHANGED <<fn, fn_in, fileVars, validVars, numVars,
                 extractVars, scrapeVars>>

Call_check_green_score_valid ==
    /\ fn = "_check_green_score_valid" /\ fn_out = Pending
    /\ fn_out' = CheckGreenScoreValid(fn_in)
    /\ UNCHANGED <<fn, fn_in, fileVars, validVars, numVars,
                 extractVars, scrapeVars>>

Call_check_main_nutrients_present ==
    /\ fn = "_check_main_nutrients_present" /\ fn_out = Pending
    /\ fn_out' = CheckMainNutrientsPresent(fn_in)
    /\ UNCHANGED <<fn, fn_in, fileVars, validVars, numVars,
                 extractVars, scrapeVars>>

Call_get_error_detail ==
    /\ fn = "_get_error_detail" /\ fn_out = Pending
    /\ fn_out' = GetErrorDetail(fn_in.field, fn_in.product)
    /\ UNCHANGED <<fn, fn_in, fileVars, validVars, numVars,
                 extractVars, scrapeVars>>

AccumulatorsResult(acc) == [kind |-> "accumulators", v |-> acc]

Call_analyze_field ==
    /\ fn = "_analyze_field" /\ fn_out = Pending
    /\ fn_out' = AccumulatorsResult(AnalyzeField(fn_in.acc, fn_in.field_name,
                                                 fn_in.value, fn_in.barcode))
    /\ UNCHANGED <<fn, fn_in, fileVars, validVars, numVars,
                 extractVars, scrapeVars>>

Call_analyze_nutrients ==
    /\ fn = "_analyze_nutrients" /\ fn_out = Pending
    /\ fn_out' = AccumulatorsResult(AnalyzeNutrients(fn_in.acc, fn_in.nutrients,
                                                     fn_in.barcode))
    /\ UNCHANGED <<fn, fn_in, fileVars, validVars, numVars,
                 extractVars, scrapeVars>>

NextPure ==
    \/ Call_split_quantity_and_unit
    \/ Call_extract_score_letter
    \/ Call_transform_nutrients
    \/ Call_transform_product
    \/ Call_transform_product_objects
    \/ Call_analyze_product
    \/ Call_standardize_text_transformer
    \/ Call_standardize_text_analyzer
    \/ Call_standardize_text_extractor
    \/ Call_standardize_text_numeric
    \/ Call_check_nutri_score_valid
    \/ Call_check_green_score_valid
    \/ Call_check_main_nutrients_present
    \/ Call_get_error_detail
    \/ Call_analyze_field
    \/ Call_analyze_nutrients

SpecPure == InitPure /\ [][NextPure]_vars

-----------------------------------------------------------------------------
(* SpecNum: NumericFormatAnalyzer.analyze_all over a bucket, called up to  *)
(* MaxCalls times on the same analyzer.                                    *)

\* calls of analyze_all in one behaviour
MaxCalls == 2

\* the records of the bucket: texts and nulls in the tracked fields
SaltNutrients ==
    Map(<< <<T_Salt, Str(T_question)>>, <<T_Salt_g, Str(<<"1", ",", "2", " ", "g">>)>>,
           <<<<"I", "r", "o", "n">>, Str(<<"x">>)>> >>)
EnergyNutrients ==
    Map(<< <<T_Energy, Str(T_energy_example)>>, <<T_Fat, Null>>,
           <<T_Proteins, Str(<<"3", ".", "5">>)>> >>)
NumProducts ==
    {[serving_size |-> Str(<<"a", "b", "c">>)],
     [serving_size |-> Str(T_question), quantity |-> Str(T_1c5_kg)],
     [barcode |-> Str(<<"1", "2", "3">>), serving_size |-> Str(T_450g),
      nutrients_100g |-> EnergyNutrients],
     [barcode |-> Str(<<"1", "2", "3">>), quantity |-> Str(T_question),
      nutrients_100g |-> SaltNutrients],
     [barcode |-> Str(<<"4", "5", "6">>), serving_size |-> Str(<<"1", "2">>), quantity |-> Null,
      nutrients_100g |-> SaltNutrients],
     [barcode |-> Str(<<"4", "5", "6">>), serving_size |-> Str(<<"a", "b", "c">>),
      nutrients_100g |-> Null],
     [barcode |-> Str(<<"4", "5", "6">>), quantity |-> Str(T_indisponible),
      nutrients_100g |-> Str(T_question)]}
NumBodies ==
    {[kind |-> "missing"], [kind |-> "text"], [kind |-> "array"]}
        \cup {[kind |-> "object", v |-> r] : r \in NumProducts}
NumKeys == {BucketOrder[5], BucketOrder[6]}
NumBuckets == UNION {[ks -> NumBodies] : ks \in SUBSET NumKeys}

InitNum ==
    /\ ExtractIdle /\ ScrapeIdle
    /\ nstore \in NumBuckets
    /\ npc = "idle" /\ nkeys = <<>> /\ ni = 0 /\ ncalls = 0
    /\ raw_results = EmptyMap /\ numbers_results = EmptyMap
    /\ units_results = EmptyMap
    /\ disk = EmptyMap /\ wpc = EmptyMap /\ wscan = EmptyMap
    /\ wpath = EmptyMap
    /\ wlog = EmptyMap /\ nwrites = 0
    /\ PureIdle /\ ValidIdle

Collected(acc) ==
    /\ raw_results' = acc.raw_results
    /\ numbers_results' = acc.numbers_results
    /\ units_results' = acc.units_results

\* the end of analyze_all: _save_all_reports
SavedReports(acc) ==
    /\ Collected(acc)
    /\ disk' = SaveAllReports(disk, acc)
    /\ npc' = "done"

\* the next iteration, or the end of the loop
NumAdvance(acc, next_i, last) ==
    /\ ni' = next_i
    /\ IF last THEN SavedReports(Deduplicated(acc))
       ELSE Collected(acc) /\ npc' = "loop" /\ UNCHANGED disk

NumBegin(keys) ==
    /\ nkeys' = keys
    /\ NumAdvance(Accumulators(raw_results, numbers_results, units_results),
                  1, keys = <<>>)

\* analyze_all up to its loop: self.keys.extend(...) for the two folders
AnalyzeAllListing ==
    /\ npc \in {"idle", "done"}
    /\ ncalls < MaxCalls
    /\ ncalls' = ncalls + 1
    /\ \E listing_ok \in [{1, 2} -> BOOLEAN] :
            NumBegin(nkeys \o S3List(nstore, TargetFolders[1], listing_ok[1])
                           \o S3List(nstore, TargetFolders[2], listing_ok[2]))
    /\ UNCHANGED <<nstore, wpc, wscan, wpath, wlog, nwrites, pureVars, validVars,
                 extractVars, scrapeVars>>

\* one iteration of the loop of analyze_all; after the last key,
\* _save_all_reports
AnalyzeAllNext ==
    /\ npc = "loop"
    /\ NumAdvance(AnalyzeRecord(Accumulators(raw_results, numbers_results,
                                             units_results),
                                nstore[nkeys[ni]]),
                  ni + 1, ni = Len(nkeys))
    /\ UNCHANGED <<nstore, nkeys, ncalls, wpc, wscan, wpath, wlog, nwrites,
                   pureVars, validVars,
                 extractVars, scrapeVars>>

NextNum == AnalyzeAllListing \/ AnalyzeAllNext

SpecNum == InitNum /\ [][NextNum]_vars

-----------------------------------------------------------------------------
(* SpecExtract: runs of ProductAnalyzer write products_with_errors         *)
(* snapshots, older snapshots are removed between runs, and an             *)
(* ErrorValueExtractor is created and counts the values of the snapshot    *)
(* it selected.                                                            *)

MaxSnapshots == 3

\* _standardize_text of a scalar value_found: "if not text: return ''" for
\* None, '' and {}; a non-empty mapping never reaches the errors report,
\* the check that reads it raises
StandardizeValueE(v) == IF v.t = "str" THEN StandardizeTextE(v.s) ELSE <<>>

NonEmptyText(standardized) == standardized # <<>>

\* the standardized forms that one entry of product_errors adds to
\* value_counter: a passing check is True, not a dict, and is skipped
CountedValues(detail) ==
    IF "value_found" \notin DOMAIN detail THEN <<>>
    ELSE IF detail.value_found.t = "list"
    THEN SelectSeq([i \in DOMAIN detail.value_found.l |->
                        StandardizeTextE(detail.value_found.l[i])], NonEmptyText)
    ELSE SelectSeq(<<StandardizeValueE(detail.value_found)>>, NonEmptyText)

\* the increments of value_counter: <<barcode, check, position>>
ValueOccurrences(errs) ==
    UNION {UNION {{<<k, c, i>> : i \in DOMAIN CountedValues(errs[k][c])} :
                     c \in DOMAIN errs[k]} : k \in DOMAIN errs}

ValueAt(errs, o) == CountedValues(errs[o[1]][o[2]])[o[3]]

CountOf(errs, occ, v) ==
    [count |-> Cardinality({o \in occ : ValueAt(errs, o) = v}),
     fields |-> {errs[o[1]][o[2]].field_name : o \in {q \in occ : ValueAt(errs, q) = v}}]

CountAll(errs, occ) == [v \in {ValueAt(errs, o) : o \in occ} |-> CountOf(errs, occ, v)]

\* final_result of extract_and_count_values: value -> {count, fields}
\* (fields is the set that the code writes as a sorted list)
CountValues(errs) == CountAll(errs, ValueOccurrences(errs))

\* _get_latest_errors_file: the listed file of the greatest index
ErrorsFiles(d) == {p \in DOMAIN d : p[1] = "products_with_errors"}
LatestOf(files) ==
    CHOOSE p \in files : \A q \in files : DigitsVal(q[2]) <= DigitsVal(p[2])
GetLatestErrorsFile(d) ==
    IF ErrorsFiles(d) = {} THEN Raise("FileNotFoundError")
    ELSE Ok(LatestOf(ErrorsFiles(d)))

\* the dictionaries analyze_all_products has built after its loop over keys
Analyzed(bucket, keys) == [i \in DOMAIN keys |-> AnalyzeBody(bucket[keys[i]])]
KeysWhere(keys, outcome, P(_)) ==
    {keys[i] : i \in {j \in DOMAIN keys : P(outcome[j])}}
IsValid(r) == r.kind = "ok" /\ AllChecks(r.v)
HasErrors(r) == r.kind = "ok" /\ ~AllChecks(r.v)
IsAnalyzed(r) == r.kind = "ok"
ChecksOf(bucket, ks) == [k \in ks |-> AnalyzeBody(bucket[k]).v]
ErrorsOf(bucket, ks) ==
    [k \in ks |-> DetailedChecks(AnalyzeBody(bucket[k]).v, bucket[k].v)]
FailedOf(keys, outcome) ==
    SelectSeq(keys, LAMBDA k : \E i \in DOMAIN keys : keys[i] = k /\ outcome[i].kind = "raise")

SaveRun(d, bucket, keys, outcome) ==
    SaveResults(d, ChecksOf(bucket, KeysWhere(keys, outcome, IsValid)),
                ErrorsOf(bucket, KeysWhere(keys, outcome, HasErrors)),
                ChecksOf(bucket, KeysWhere(keys, outcome, IsAnalyzed)),
                FailedOf(keys, outcome), CountProductsPerFolder(keys))

\* the records of the buckets the runs analyse
ProductBadScore ==
    [name |-> Str(T_Yogurt), categories |-> Str(T_Dairy),
     nutri_score |-> Str(<<"z">>), nutrients_100g |-> NoMainNutrientsMap]
ProductBlankCategories ==
    [name |-> Str(T_Yogurt), categories |-> Str(<<" ", " ">>),
     nutri_score |-> Str(<<"Z">>), nutrients_100g |-> MainNutrientsMap]
ExtractBuckets ==
    {Put(Put(EmptyMap, BucketOrder[1], [kind |-> "object", v |-> pair[1]]),
         BucketOrder[3], [kind |-> "object", v |-> pair[2]]) :
        pair \in {<<ProductBadScore, ValidProduct>>,
                  <<ProductWithErrors, ProductBlankCategories>>,
                  <<ValidProduct, ValidProduct>>}}

InitExtract ==
    /\ disk = EmptyMap /\ wpc = EmptyMap /\ wscan = EmptyMap
    /\ wpath = EmptyMap
    /\ wlog = EmptyMap /\ nwrites = 0
    /\ epc = "none" /\ errors_path = <<>> /\ loaded_errors = EmptyMap
    /\ final_result = EmptyMap /\ last_run = <<>>
    /\ PureIdle /\ ValidIdle /\ NumIdle /\ ScrapeIdle

\* a whole run of analyze_all_products over the bucket, ending in
\* _save_results
AnalyzerRun(bucket, keys) ==
    /\ Cardinality({p \in DOMAIN disk : p[1] = "products_summary"}) < MaxSnapshots
    /\ disk' = SaveRun(disk, bucket, keys, Analyzed(bucket, keys))
    /\ last_run' = GetNextVersionedFilename(DOMAIN disk, "products_with_errors")
    /\ UNCHANGED <<wpc, wscan, wpath, wlog, nwrites, epc, errors_path, loaded_errors,
                   final_result, pureVars, validVars, numVars, scrapeVars>>

\* an older products_with_errors snapshot is removed between two runs
RemoveOlder(p) ==
    /\ p \in ErrorsFiles(disk) /\ p # last_run
    /\ disk' = Without(disk, p)
    /\ UNCHANGED <<wpc, wscan, wpath, wlog, nwrites, extractVars, pureVars, validVars,
                   numVars, scrapeVars>>

Selected(latest) ==
    IF latest.kind = "raise"
    THEN epc' = "raised" /\ errors_path' = <<>>
    ELSE epc' = "ready" /\ errors_path' = latest.v

\* ErrorValueExtractor(): self.errors_path = self._get_latest_errors_file()
NewExtractor ==
    /\ Selected(GetLatestErrorsFile(disk))
    /\ UNCHANGED <<fileVars, loaded_errors, final_result, last_run, pureVars,
                   validVars, numVars, scrapeVars>>

Counted(errs) ==
    /\ loaded_errors' = errs
    /\ final_result' = CountValues(errs)
    /\ disk' = SaveReport(disk, "error_value_analysis", CountValues(errs))
    /\ epc' = "done"

\* extract_and_count_values; open(self.errors_path) raises when the
\* snapshot has been removed since the constructor selected it
ExtractAndCountValues ==
    /\ epc \in {"ready", "done"}
    /\ Cardinality({p \in DOMAIN disk : p[1] = "error_value_analysis"}) < MaxRuns
    /\ IF errors_path \in DOMAIN disk
       THEN Counted(disk[errors_path])
       ELSE epc' = "raised" /\ UNCHANGED <<disk, loaded_errors, final_result>>
    /\ UNCHANGED <<wpc, wscan, wpath, wlog, nwrites, errors_path, last_run, pureVars,
                   validVars, numVars, scrapeVars>>

NextExtract ==
    \/ \E bucket \in ExtractBuckets :
          AnalyzerRun(bucket, ListAllJsonKeys(bucket, [i \in {1, 2} |-> TRUE]))
    \/ \E p \in DOMAIN disk : RemoveOlder(p)
    \/ NewExtractor
    \/ ExtractAndCountValues

SpecExtract == InitExtract /\ [][NextExtract]_vars

-----------------------------------------------------------------------------
(* SpecConfig: a ProductAnalyzer or a NumericFormatAnalyzer is created     *)
(* from a reference file and, once it exists, analyses its bucket.         *)

\* the reference file: missing, a text that is not JSON, a JSON object, or
\* a JSON array of items
GoodReference ==
    [kind |-> "array",
     items |-> [i \in DOMAIN ReferenceFile |-> [name |-> Str(ReferenceFile[i])]]]
ReferenceFiles ==
    {[kind |-> "missing"], [kind |-> "text"], [kind |-> "object"], GoodReference,
     [kind |-> "array", items |-> <<[name |-> Str(T_Energy)], [unit |-> Str(<<"g">>)]>>]}

\* the loop over the parsed file: item["name"]
NamesOf(file) ==
    CASE file.kind = "object" -> Raise("TypeError")
      [] \E i \in DOMAIN file.items : "name" \notin DOMAIN file.items[i] ->
            Raise("KeyError")
      [] OTHER -> Ok([i \in DOMAIN file.items |-> file.items[i].name.s])

\* open() and json.load() guarded by an except that falls back to an
\* empty table
OpenReference_Swallow(file) ==
    IF file.kind \in {"missing", "text"} THEN Ok(<<>>) ELSE NamesOf(file)

\* with open(path) as f: json.load(f), then the loop
OpenReference(file) ==
    CASE file.kind = "missing" -> Raise("FileNotFoundError")
      [] file.kind = "text" -> Raise("JSONDecodeError")
      [] OTHER -> NamesOf(file)

StandardizedNames(r, names) == IF r.kind = "raise" THEN r ELSE Ok(names)

\* ProductAnalyzer._load_reference and reference_nutrients
LoadReferenceA(file) ==
    StandardizedNames(OpenReference(file),
        {StandardizeTextA(OpenReference(file).v[i]) : i \in DOMAIN OpenReference(file).v})

\* NumericFormatAnalyzer._load_reference
LoadReferenceN(file) ==
    StandardizedNames(OpenReference(file),
        {StandardizeTextN(OpenReference(file).v[i]) : i \in DOMAIN OpenReference(file).v})

InitConfig ==
    /\ ExtractIdle /\ ScrapeIdle
    /\ fn_in \in ReferenceFiles /\ fn_out = Pending
    /\ disk = EmptyMap /\ wpc = EmptyMap /\ wscan = EmptyMap
    /\ wpath = EmptyMap
    /\ wlog = EmptyMap /\ nwrites = 0
    /\ vkeys = <<>> /\ vi = 0
    /\ results = EmptyMap /\ valids = EmptyMap /\ errors = EmptyMap
    /\ failed_files = <<>> /\ folder_counts = EmptyMap /\ summary = None
    /\ nkeys = <<>> /\ ni = 0 /\ ncalls = 0
    /\ raw_results = EmptyMap /\ numbers_results = EmptyMap
    /\ units_results = EmptyMap
    /\ \/ /\ fn = "ProductAnalyzer" /\ vpc = "new" /\ store \in Buckets
          /\ npc = "off" /\ nstore = <<>>
       \/ /\ fn = "NumericFormatAnalyzer" /\ npc = "new" /\ nstore \in NumBuckets
          /\ vpc = "off" /\ store = EmptyMap

\* the analyzer exists once __init__ has returned
Constructed(r, pc) == IF r.kind = "ok" THEN "idle" ELSE pc

\* ProductAnalyzer(s3_manager, reference_path)
NewProductAnalyzer ==
    /\ fn = "ProductAnalyzer" /\ fn_out = Pending
    /\ fn_out' = LoadReferenceA(fn_in)
    /\ vpc' = Constructed(LoadReferenceA(fn_in), vpc)
    /\ UNCHANGED <<fn, fn_in, fileVars, store, vkeys, vi, results, valids, errors,
                   failed_files, folder_counts, summary, numVars, extractVars,
                   scrapeVars>>

\* NumericFormatAnalyzer(s3_manager, reference_path)
NewNumericFormatAnalyzer ==
    /\ fn = "NumericFormatAnalyzer" /\ fn_out = Pending
    /\ fn_out' = LoadReferenceN(fn_in)
    /\ npc' = Constructed(LoadReferenceN(fn_in), npc)
    /\ UNCHANGED <<fn, fn_in, fileVars, validVars, nstore, nkeys, ni, raw_results,
                   numbers_results, units_results, ncalls, extractVars, scrapeVars>>

NextConfig ==
    \/ NewProductAnalyzer
    \/ NewNumericFormatAnalyzer
    \/ AnalyzeAllStart
    \/ AnalyzeNext
    \/ AnalyzeAllListing
    \/ AnalyzeAllNext

SpecConfig == InitConfig /\ [][NextConfig]_vars

-----------------------------------------------------------------------------
(* scraper/batch_scraper.py: OpenFoodFactsScraper.  SpecScrape: processes  *)
(* import the module, create a scraper and run it; a run can be            *)
(* interrupted by an exception or end with its process.  The bucket        *)
(* outlives the processes.                                                 *)

\* target_total of the scrapers
TargetTotal == 3

B8 == <<"1", "2", "3", "4", "5", "6", "7", "8">>
B12 == <<"3", "0", "1", "7", "6", "2", "0", "4", "2", "2", "0", "0">>
B13 == <<"3", "0", "1", "7", "6", "2", "0", "4", "2", "2", "0", "0", "3">>

\* the pages of the search API, each the codes of its products that have a
\* code and a product_name
ApiPages == << <<B8, B13>>, <<B13, B12>> >>

\* get_barcodes_from_api: [] past the last page and when the request fails
GetBarcodesFromApi(page, api_ok) ==
    IF api_ok /\ page \in DOMAIN ApiPages THEN ApiPages[page] ELSE <<>>

\* S3Manager.list of the scraper's bucket: [] when the listing fails
ListedUnder(keys, prefix, listing_ok) ==
    IF listing_ok THEN {k \in keys : StartsWith(k, prefix)} ELSE {}

\* os.path.basename
Basename(k) == SplitOn(k, "/")[Len(SplitOn(k, "/"))]

\* filename.replace(".json", "") of the listed files that end with .json
BarcodesOf(files) ==
    {ReplaceSub(Basename(k), T_dot_json, <<>>) :
        k \in {f \in files : EndsWith(Basename(f), T_dot_json)}}

\* fetch_existing_barcodes_from_s3
FetchExistingBarcodesFromS3(keys, listing_ok) ==
    BarcodesOf(ListedUnder(keys, PrefixOf(FolderNames[1]), listing_ok[1]))
        \cup BarcodesOf(ListedUnder(keys, PrefixOf(FolderNames[2]), listing_ok[2]))

\* classify_barcodes: the codes of 8 and of 13 characters
ClassifyBarcodes(codes) ==
    [EAN_8 |-> SelectSeq(codes, LAMBDA code : Len(code) = 8),
     EAN_13 |-> SelectSeq(codes, LAMBDA code : Len(code) = 13)]

\* folder = "EAN8" if len(barcode) == 8 else "EAN13"; the s3_key
S3Key(barcode) ==
    PrefixOf(IF Len(barcode) = 8 THEN T_EAN8 ELSE T_EAN13) \o barcode \o T_dot_json

\* list(self.barcodes): the set in one of its iteration orders
Orderings(S) ==
    {f \in [1..Cardinality(S) -> S] : \A i, j \in DOMAIN f : f[i] = f[j] => i = j}

\* [:self.target_total]
Take(seq, n) == SubSeq(seq, 1, IF Len(seq) < n THEN Len(seq) ELSE n)

Checkpoint(page, codes) == [exists |-> TRUE, current_page |-> page, barcodes |-> codes]

InitScrape ==
    /\ FilesIdle /\ PureIdle /\ ValidIdle /\ NumIdle /\ ExtractIdle
    /\ spc = "none" /\ checkpoint_file = NoFile /\ current_page = 0
    /\ barcodes = {} /\ already_uploaded = {} /\ barcodes_list = <<>>
    /\ si = 0 /\ s3 = {} /\ s3_at_start = {} /\ uploaded = <<>>
    /\ interrupted_at = NoFile

\* a process imports the module: RESULTS_DIR = tempfile.mkdtemp(...), a
\* new and empty directory, and CHECKPOINT_FILE is a path inside it
StartProcess ==
    /\ spc \in {"none", "interrupted", "ended"}
    /\ spc' = "imported"
    /\ checkpoint_file' = NoFile
    /\ current_page' = 0 /\ barcodes' = {} /\ already_uploaded' = {}
    /\ barcodes_list' = <<>> /\ si' = 0
    /\ UNCHANGED <<s3, s3_at_start, uploaded, interrupted_at, fileVars, pureVars,
                   validVars, numVars, extractVars>>

\* load_checkpoint
LoadCheckpoint(file) ==
    IF file.exists THEN [current_page |-> file.current_page, barcodes |-> file.barcodes]
    ELSE [current_page |-> 1, barcodes |-> {}]

\* OpenFoodFactsScraper(): the defaults, load_checkpoint and
\* fetch_existing_barcodes_from_s3
NewScraper(listing_ok) ==
    /\ spc \in {"imported", "interrupted", "ended"}
    /\ current_page' = LoadCheckpoint(checkpoint_file).current_page
    /\ barcodes' = LoadCheckpoint(checkpoint_file).barcodes
    /\ already_uploaded' = FetchExistingBarcodesFromS3(s3, listing_ok)
    /\ barcodes_list' = <<>> /\ si' = 0
    /\ s3_at_start' = s3 /\ uploaded' = <<>>
    /\ spc' = "ready"
    /\ UNCHANGED <<checkpoint_file, s3, interrupted_at, fileVars, pureVars,
                   validVars, numVars, extractVars>>

\* run(), one iteration of the while loop that does not break: the page is
\* added, current_page is incremented and save_checkpoint writes the file
RunLoop(api_ok) ==
    /\ spc \in {"ready", "pages"}
    /\ Cardinality(barcodes) < TargetTotal
    /\ GetBarcodesFromApi(current_page, api_ok) # <<>>
    /\ barcodes' = barcodes \cup Range(GetBarcodesFromApi(current_page, api_ok))
    /\ current_page' = current_page + 1
    /\ checkpoint_file' =
          Checkpoint(current_page + 1,
                     barcodes \cup Range(GetBarcodesFromApi(current_page, api_ok)))
    /\ spc' = "pages"
    /\ UNCHANGED <<already_uploaded, barcodes_list, si, s3, s3_at_start, uploaded,
                   interrupted_at, fileVars, pureVars, validVars, numVars,
                   extractVars>>

\* run(), the end of the while loop (the target is reached or the page is
\* empty) and barcodes_list = list(self.barcodes)[:self.target_total]
RunScrapeStart(api_ok, order) ==
    /\ spc \in {"ready", "pages"}
    /\ \/ Cardinality(barcodes) >= TargetTotal
       \/ GetBarcodesFromApi(current_page, api_ok) = <<>>
    /\ barcodes_list' = Take(order, TargetTotal)
    /\ si' = 0
    /\ spc' = "scrape"
    /\ UNCHANGED <<checkpoint_file, current_page, barcodes, already_uploaded, s3,
                   s3_at_start, uploaded, interrupted_at, fileVars, pureVars,
                   validVars, numVars, extractVars>>

\* the body of the loop of scrape_and_upload_foods after the membership
\* test: scrape_food raises, gives an invalid product or a valid one, which
\* is uploaded unless S3Manager.upload swallows an error
Scraped(barcode, outcome, upload_ok) ==
    IF outcome = "valid"
    THEN /\ s3' = IF upload_ok THEN s3 \cup {S3Key(barcode)} ELSE s3
         /\ uploaded' = IF upload_ok THEN Append(uploaded, barcode) ELSE uploaded
         /\ already_uploaded' = already_uploaded \cup {barcode}
    ELSE UNCHANGED <<s3, uploaded, already_uploaded>>

\* one iteration of the loop of scrape_and_upload_foods
ScrapeNext(outcome, upload_ok) ==
    /\ spc = "scrape" /\ si < Len(barcodes_list)
    /\ si' = si + 1
    /\ IF barcodes_list[si + 1] \in already_uploaded
       THEN UNCHANGED <<s3, uploaded, already_uploaded>>
       ELSE Scraped(barcodes_list[si + 1], outcome, upload_ok)
    /\ UNCHANGED <<spc, checkpoint_file, current_page, barcodes, barcodes_list,
                   s3_at_start, interrupted_at, fileVars, pureVars, validVars,
                   numVars, extractVars>>

\* run() ends: finally, shutil.rmtree(RESULTS_DIR)
RunEnd ==
    /\ spc = "scrape" /\ si = Len(barcodes_list)
    /\ checkpoint_file' = NoFile
    /\ interrupted_at' = NoFile
    /\ spc' = "ended"
    /\ UNCHANGED <<current_page, barcodes, already_uploaded, barcodes_list, si, s3,
                   s3_at_start, uploaded, fileVars, pureVars, validVars, numVars,
                   extractVars>>

\* an exception (KeyboardInterrupt, an S3 error) leaves run(): finally,
\* shutil.rmtree(RESULTS_DIR)
Interrupt ==
    /\ spc \in {"pages", "scrape"}
    /\ interrupted_at' = checkpoint_file
    /\ checkpoint_file' = NoFile
    /\ spc' = "interrupted"
    /\ UNCHANGED <<current_page, barcodes, already_uploaded, barcodes_list, si, s3,
                   s3_at_start, uploaded, fileVars, pureVars, validVars, numVars,
                   extractVars>>

\* the process ends during run() without running finally (it is killed,
\* the machine stops): its RESULTS_DIR stays behind
Kill ==
    /\ spc \in {"pages", "scrape"}
    /\ interrupted_at' = checkpoint_file
    /\ spc' = "none"
    /\ UNCHANGED <<checkpoint_file, current_page, barcodes, already_uploaded,
                   barcodes_list, si, s3, s3_at_start, uploaded, fileVars, pureVars,
                   validVars, numVars, extractVars>>

NextScrape ==
    \/ StartProcess
    \/ \E listing_ok \in [{1, 2} -> BOOLEAN] : NewScraper(listing_ok)
    \/ \E api_ok \in BOOLEAN : RunLoop(api_ok)
    \/ \E api_ok \in BOOLEAN, order \in Orderings(barcodes) : RunScrapeStart(api_ok, order)
    \/ \E outcome \in {"raise", "invalid", "valid"}, upload_ok \in BOOLEAN :
          ScrapeNext(outcome, upload_ok)
    \/ RunEnd
    \/ Interrupt
    \/ Kill

SpecScrape == InitScrape /\ [][NextScrape]_vars

-----------------------------------------------------------------------------
(* Claims about ProductTransformer, checked under SpecPure *)

Returned(f) == fn = f /\ fn_out # Pending

\* C4: _transform_product never fails a whole record because of one bad
\* field: for every raw record of texts and nulls it returns a normalized
\* record, and no exception leaves the per-field parsing.
C4_NoRecordFailure ==
    Returned("_transform_product") => fn_out.kind = "ok"

\* C7: no check of analyze_product raises: for every record whose name,
\* categories, nutri_score, green_score_letter and nutrients_100g are each
\* absent, null, a text or a nested mapping, analyze_product returns the
\* five boolean verdicts.
C7_NoCheckRaises ==
    Returned("analyze_product") =>
        /\ fn_out.kind = "ok"
        /\ DOMAIN fn_out.v = Range(CheckNames)
        /\ \A c \in Range(CheckNames) : fn_out.v[c] \in BOOLEAN

\* C8: for every X in A..E, 'Nutri-Score X' and 'Green-Score X' are
\* transformed to the lowercase letter x.
C8_ScoreTextGivesItsLetter ==
    \A x \in ScoreLetters :
        (/\ Returned("_extract_score_letter")
         /\ fn_in \in {T_NutriScore \o <<x>>, T_GreenScore \o <<x>>})
        => fn_out = [kind |-> "letter", v |-> <<LowerChar(x)>>]

\* C9: for the energy field the text '1,008 kj (241 kcal)' yields an
\* energy_kj token of magnitude 1008.0, unit 'kj', and an energy_kcal token
\* of magnitude 241.0, unit 'kcal'.
C9_EnergyExample ==
    (/\ Returned("_transform_nutrients")
     /\ fn_in = << <<T_energy, Str(T_energy_example)>> >>)
    => /\ fn_out.kind = "ok"
       /\ DOMAIN fn_out.v = {T_energy_kj_100g, T_energy_kcal_100g}
       /\ fn_out.v[T_energy_kj_100g] = Qty(Dec(1008, 0), T_kj)
       /\ fn_out.v[T_energy_kcal_100g] = Qty(Dec(241, 0), T_kcal)

\* the shape C10 names: digits, optionally a period and digits, then
\* optional white space and at least one unit letter; d digits, f digits
\* after the period (0 without a period), white space up to position a
ShapeUnit(v, a) == RunLen(v, 1 + a, IsUnitLetter) >= 1
ShapeSpace(v, n) == ShapeUnit(v, n + RunLen(v, 1 + n, IsSpace))
ShapeFraction(v, d, f) == IF f >= 1 THEN ShapeSpace(v, d + 1 + f) ELSE ShapeSpace(v, d)
ShapeDigits(v, d) ==
    /\ d >= 1
    /\ IF d < Len(v) /\ v[d + 1] = "."
       THEN ShapeFraction(v, d, RunLen(v, d + 2, IsDigit))
       ELSE ShapeSpace(v, d)
NumberShape(v) == ShapeDigits(v, RunLen(v, 1, IsDigit))

\* C10: _split_quantity_and_unit returns a (float, lowercased unit) pair
\* exactly when the comma-normalized text has that shape, and (None, None)
\* for every other text: it is total and two-valued.
C10_SplitTotalTwoValued ==
    Returned("_split_quantity_and_unit") =>
        /\ fn_out.kind \in {"pair", "none"}
        /\ fn_out.kind = "pair" <=> NumberShape(ReplaceChar(fn_in, ",", "."))

-----------------------------------------------------------------------------
(* Claims about the versioned report files, checked under SpecFiles *)

\* C1: under a single writer a save never overwrites an existing snapshot:
\* the path the scan chose does not exist when the file is written, and
\* every snapshot that was there keeps its content.
C1_NoOverwrite ==
    [][\A w \in Writers :
          (wpc[w] = "write" /\ wpc'[w] = "idle") =>
              /\ wpath[w] \notin DOMAIN disk
              /\ \A p \in DOMAIN disk : p \in DOMAIN disk' /\ disk'[p] = disk[p]]_vars

\* a save has been made into a directory that held a snapshot of the family
C1_Witness ==
    \E p \in DOMAIN disk : \E q \in DOMAIN disk :
        p[1] = q[1] /\ disk[p] < disk[q] /\ disk[q] = nwrites

\* int(suffix), the index of a snapshot
IndexOf(suffix) == DigitsVal(suffix)

\* C2: N writes of one family in succession give N distinct files whose
\* indices increase strictly in write order.
C2_IndicesIncrease ==
    \A f \in Families :
        \A i \in DOMAIN wlog[f] : \A j \in DOMAIN wlog[f] :
            i < j => /\ IndexOf(wlog[f][i]) < IndexOf(wlog[f][j])
                     /\ wlog[f][i] # wlog[f][j]
                     /\ Len(wlog[f][j]) = 4

\* three writes of one family in succession
C2_Witness == \E f \in Families : Len(wlog[f]) >= 3

-----------------------------------------------------------------------------
(* Claims about ProductAnalyzer.analyze_all_products, checked under        *)
(* SpecValidate and SpecValidateFair                                       *)

Occurrences(seq, x) == Cardinality({i \in DOMAIN seq : seq[i] = x})

\* the first n listed keys are each in the results or in the failed list,
\* once and not in both, and nothing else is
AccountedUpTo(n) ==
    /\ \A i \in 1..n :
          /\ (vkeys[i] \in DOMAIN results) # (vkeys[i] \in Range(failed_files))
          /\ Occurrences(failed_files, vkeys[i]) <= 1
          /\ (vkeys[i] \in DOMAIN valids) # (vkeys[i] \in DOMAIN errors)
                <=> vkeys[i] \in DOMAIN results
    /\ DOMAIN results \cup Range(failed_files) = {vkeys[i] : i \in 1..n}
    /\ DOMAIN valids \cup DOMAIN errors = DOMAIN results

SummaryFiles == {p \in DOMAIN disk : p[1] = "products_summary"}

\* the summary of the call that returned is the newest summary report
SummaryWritten ==
    /\ summary # None
    /\ \E p \in SummaryFiles :
          /\ disk[p] = summary
          /\ \A q \in SummaryFiles : DigitsVal(q[2]) <= DigitsVal(p[2])

\* C5: analyze_all_products accounts for every listed key exactly once and
\* always finishes with a summary: a key that cannot be fetched, parsed or
\* analyzed goes to the failed list and the loop goes on with the next key,
\* every listed key ends in the results or in the failed list and never in
\* both, and the call reaches _save_results, which writes the summary.
C5_EveryKeyAccounted ==
    /\ [][/\ vpc' = "loop" => AccountedUpTo(vi - 1)'
          /\ vpc' = "done" => (AccountedUpTo(Len(vkeys)) /\ SummaryWritten)'
          /\ (vpc = "loop" /\ vi < Len(vkeys)) => (vpc' = "loop" /\ vi' = vi + 1)]_vars
    /\ (vpc = "loop") ~> (vpc = "done")

\* every listed record failed, and the summary is written
C5_Witness ==
    /\ vpc = "done" /\ Len(vkeys) >= 2
    /\ results = EmptyMap /\ Len(failed_files) = Len(vkeys)
    /\ SummaryWritten

RECURSIVE SumValues(_)
SumValues(f) ==
    IF DOMAIN f = {} THEN 0
    ELSE f[CHOOSE k \in DOMAIN f : TRUE]
            + SumValues(Without(f, CHOOSE k \in DOMAIN f : TRUE))

\* C6: in every validation summary written, total_products_analyzed =
\* products_all_valid + products_with_errors, total_products_analyzed +
\* products_failed_to_analyze = the number of listed keys, and the values
\* of products_per_folder sum to the number of listed keys.
C6_SummaryArithmetic ==
    /\ \A p \in SummaryFiles :
          /\ disk[p].total_products_analyzed =
                disk[p].products_all_valid + disk[p].products_with_errors
          /\ SumValues(disk[p].products_per_folder) =
                disk[p].total_products_analyzed + disk[p].products_failed_to_analyze
    /\ vpc = "done" =>
          /\ SummaryWritten
          /\ summary.total_products_analyzed + summary.products_failed_to_analyze
                = Len(vkeys)
          /\ SumValues(summary.products_per_folder) = Len(vkeys)

\* a summary with valid, erroneous and failed records and two keys in one
\* folder
C6_Witness ==
    /\ vpc = "done" /\ summary # None
    /\ summary.products_all_valid > 0 /\ summary.products_with_errors > 0
    /\ summary.products_failed_to_analyze > 0
    /\ \E f \in DOMAIN summary.products_per_folder :
            summary.products_per_folder[f] >= 2

-----------------------------------------------------------------------------
(* Claims about NumericFormatAnalyzer.analyze_all, checked under SpecNum   *)

\* the non-empty values of the tracked fields of a record, each with its
\* section: serving_size, quantity and the nutrients_100g entries whose
\* name is a reference nutrient
TrackedNutrients(nutrients) ==
    IF nutrients.t = "map"
    THEN {<<StandardizeTextN(nutrients.m[i][1]), nutrients.m[i][2].s>> :
            i \in {j \in DOMAIN nutrients.m :
                    /\ Truthy(nutrients.m[j][2])
                    /\ StandardizeTextN(nutrients.m[j][1]) \in ReferenceNutrientsN}}
    ELSE {}

TrackedValues(product) ==
    {<<T_serving_size, Get(product, "serving_size", Str(<<>>)).s>> :
        x \in {y \in {1} : Truthy(Get(product, "serving_size", Str(<<>>)))}}
        \cup {<<T_quantity, Get(product, "quantity", Str(<<>>)).s>> :
                x \in {y \in {1} : Truthy(Get(product, "quantity", Str(<<>>)))}}
        \cup TrackedNutrients(Get(product, "nutrients_100g", Map(<<>>)))

\* the missing map of the section holds barcode -> value_str
Traced(by_section, section, barcode, value_str) ==
    /\ section \in DOMAIN by_section
    /\ barcode \in DOMAIN by_section[section].missing
    /\ by_section[section].missing[barcode] = value_str

\* C3: after analyze_all has processed a batch, every extraction failure
\* is traceable to its record: for every processed record and every
\* tracked field whose non-empty value yields no number token
\* (respectively no unit token), the numbers-missing (respectively
\* units-missing) map of that field holds that record's barcode with that
\* raw value, also when several records carry the same barcode or none.
C3_EveryFailureTraceable ==
    npc = "done" =>
        \A i \in DOMAIN nkeys :
            nstore[nkeys[i]].kind = "object" =>
                \A tv \in TrackedValues(nstore[nkeys[i]].v) :
                    /\ FindNumbersAndUnits(tv[2]).numbers = <<>> =>
                            Traced(numbers_results, tv[1],
                                   Get(nstore[nkeys[i]].v, "barcode", Str(T_unknown)).s,
                                   tv[2])
                    /\ FindNumbersAndUnits(tv[2]).units = <<>> =>
                            Traced(units_results, tv[1],
                                   Get(nstore[nkeys[i]].v, "barcode", Str(T_unknown)).s,
                                   tv[2])

-----------------------------------------------------------------------------
(* Claims about the text standardizers, checked under SpecPure             *)

\* C11: the basic text standardizer is idempotent: for every text t,
\* _standardize_text(_standardize_text(t)) = _standardize_text(t), for the
\* variants of ProductTransformer, ProductAnalyzer and ErrorValueExtractor.
C11_StandardizeIdempotent ==
    /\ Returned("ProductTransformer._standardize_text") =>
            StandardizeTextT(fn_out.v) = fn_out.v
    /\ Returned("ProductAnalyzer._standardize_text") =>
            StandardizeTextA(fn_out.v) = fn_out.v
    /\ Returned("ErrorValueExtractor._standardize_text") =>
            StandardizeTextE(fn_out.v) = fn_out.v

\* C12: the standardizer of NumericFormatAnalyzer (lowercase, strip, then
\* every parenthesized group removed with its leading white space) is
\* idempotent, also when the group is at the start or in the middle.
C12_ParenStripIdempotent ==
    Returned("NumericFormatAnalyzer._standardize_text") =>
        StandardizeTextN(fn_out.v) = fn_out.v

-----------------------------------------------------------------------------
(* Claims about the checks of ProductAnalyzer, checked under SpecPure      *)

\* the required name n is among the standardized nutrient keys of the
\* record that are in the reference vocabulary
HasNutrient(nutrients, n) ==
    /\ nutrients.t = "map"
    /\ n \in ReferenceNutrientsA
    /\ \E i \in DOMAIN nutrients.m : StandardizeTextA(nutrients.m[i][1]) = n

RequiredNames == {T_energy, T_fat, T_proteins, T_carbohydrates}

MissingOf(nutrients) == {n \in RequiredNames : ~HasNutrient(nutrients, n)}

DiagnosticOf(detail, nutrients) ==
    /\ Range(detail.missing) = MissingOf(nutrients)
    /\ Len(detail.missing) = Cardinality(MissingOf(nutrients))
    /\ detail.value_found =
          [t |-> "list", l |-> [i \in DOMAIN nutrients.m |-> nutrients.m[i][1]]]
    /\ detail.field_name = "nutrients_100g"

\* C13: main_nutrients_present passes iff every name of {energy, fat,
\* proteins, carbohydrates} is among the record's standardized nutrient
\* keys that are in the reference vocabulary; on failure the diagnostic
\* names exactly the required nutrients that are missing (all four when
\* none is present), whatever other nutrients the record has, and reports
\* the raw nutrient key list as value_found.
C13_MainNutrientsVerdict ==
    /\ Returned("_check_main_nutrients_present") =>
          (fn_out = Ok(TRUE) <=>
              MissingOf(Get(fn_in, "nutrients_100g", Map(<<>>))) = {})
    /\ (Returned("_get_error_detail") /\ fn_in.field = "main_nutrients_present") =>
          DiagnosticOf(fn_out, Get(fn_in.product, "nutrients_100g", Map(<<>>)))

\* a record with other nutrients and none of the four: all four are named
C13_Witness ==
    /\ Returned("_get_error_detail") /\ fn_in.field = "main_nutrients_present"
    /\ Len(Get(fn_in.product, "nutrients_100g", Map(<<>>)).m) >= 2
    /\ Range(fn_out.missing) = RequiredNames

GreenForm(s) ==
    /\ StartsWith(s, <<"g", "r", "e", "e", "n", "-", "s", "c", "o", "r", "e", " ">>)
    /\ s[Len(s)] \in {"a", "b", "c", "d", "e"}

GreenValid(v) ==
    \/ v.t \in {"absent", "null"}
    \/ v.t = "str" /\ GreenForm(StandardizeTextA(v.s))

NutriValid(v) ==
    \/ v.t \in {"absent", "null"}
    \/ v.t = "str" /\ StandardizeTextA(v.s) \in {<<x>> : x \in {"a", "b", "c", "d", "e"}}

\* C14: green_score_valid passes iff green_score_letter is absent or null,
\* or its standardized form starts with 'green-score ' and its last
\* character is in {a..e}: 'Green-Score A' is valid and 'Green Score A' is
\* invalid.  nutri_score is valid iff it is absent or null or its
\* standardized form is exactly one letter of {a..e}.
C14_ScoreRules ==
    /\ Returned("_check_green_score_valid") =>
          /\ fn_out = Ok(TRUE) <=> GreenValid(Get(fn_in, "green_score_letter", Absent))
          /\ fn_in = [green_score_letter |-> Str(T_Green_Score_A)] => fn_out = Ok(TRUE)
          /\ fn_in = [green_score_letter |-> Str(T_Green_Space_Score_A)] =>
                fn_out = Ok(FALSE)
    /\ Returned("_check_nutri_score_valid") =>
          (fn_out = Ok(TRUE) <=> NutriValid(Get(fn_in, "nutri_score", Absent)))

\* 'Green Score A' has been checked and is invalid
C14_Witness ==
    /\ Returned("_check_green_score_valid")
    /\ fn_in = [green_score_letter |-> Str(T_Green_Space_Score_A)]
    /\ fn_out = Ok(FALSE)

-----------------------------------------------------------------------------
(* Claims about ErrorValueExtractor, checked under SpecExtract             *)

\* the number of values a verdict holds: the elements of a sequence
\* value_found, one for a scalar value_found, none for a passing check
ValuesFound(detail) ==
    IF "value_found" \notin DOMAIN detail THEN 0
    ELSE IF detail.value_found.t = "list" THEN Len(detail.value_found.l)
    ELSE 1

RECURSIVE TotalOver(_, _)
TotalOver(errs, verdicts) ==
    IF verdicts = {} THEN 0
    ELSE ValuesFound(errs[(CHOOSE o \in verdicts : TRUE)[1]][(CHOOSE o \in verdicts : TRUE)[2]])
            + TotalOver(errs, verdicts \ {CHOOSE o \in verdicts : TRUE})

TotalFound(errs) ==
    TotalOver(errs, {<<k, c>> : k \in DOMAIN errs, c \in Range(CheckNames)})

\* C15: extract_and_count_values counts every failing verdict's value: the
\* sum of all counts in the output equals the number of scalar values plus
\* sequence elements over all failing verdicts of the input.
C15_EveryValueCounted ==
    epc = "done" =>
        SumValues([v \in DOMAIN final_result |-> final_result[v].count])
            = TotalFound(loaded_errors)

\* C18: ErrorValueExtractor always analyses the most recent validation
\* output: whatever runs wrote products_with_errors snapshots and whatever
\* older snapshots were removed between runs, the file selected by
\* _get_latest_errors_file is the snapshot written by the most recent run.
C18_LatestRunSelected ==
    [][(NewExtractor /\ last_run # <<>>) => errors_path' = last_run]_vars

-----------------------------------------------------------------------------
(* Claims about the objects of _transform_product, checked under SpecPure  *)

CopiedUnchanged(raw, normalized) ==
    /\ DOMAIN normalized = DOMAIN raw
    /\ \A f \in DOMAIN raw \ Range(FieldOrder) : normalized[f] = raw[f]

\* C16: _transform_product leaves its input record unchanged: after the
\* call the raw record and its nested nutrients_100g mapping hold the keys
\* and values they held before, the normalized record is a different
\* object, and every field other than name, nutri_score,
\* green_score_letter, carbon_impact_per_100g, nutrients_100g, serving_size
\* and quantity is copied unchanged.
C16_InputUnchanged ==
    Returned("_transform_product (objects)") =>
        /\ fn_out.objects.raw = fn_in
        /\ fn_out.kind = "ok" =>
              /\ fn_out.returned # "raw"
              /\ CopiedUnchanged(fn_in, Bound(fn_out.objects))

\* a record with a barcode whose nutrients were re-written in the
\* normalized record
C16_Witness ==
    /\ Returned("_transform_product (objects)") /\ fn_out.kind = "ok"
    /\ "barcode" \in DOMAIN fn_in /\ "nutrients_100g" \in DOMAIN fn_in
    /\ fn_in["nutrients_100g"].t = "map"
    /\ Bound(fn_out.objects)["nutrients_100g"] # fn_in["nutrients_100g"]
    /\ Bound(fn_out.objects)["barcode"] = fn_in["barcode"]

-----------------------------------------------------------------------------
(* Claims about the reference file, checked under SpecConfig               *)

NothingProcessed ==
    /\ vi = 0 /\ results = EmptyMap /\ valids = EmptyMap /\ errors = EmptyMap
    /\ failed_files = <<>>
    /\ ni = 0 /\ raw_results = EmptyMap /\ numbers_results = EmptyMap
    /\ units_results = EmptyMap

\* C17: a missing or malformed reference file is fatal: constructing
\* NumericFormatAnalyzer or ProductAnalyzer then fails with an error raised
\* to the caller, before any record is processed and before any report
\* file is written.
C17_BadReferenceIsFatal ==
    (fn \in {"ProductAnalyzer", "NumericFormatAnalyzer"}
        /\ fn_in.kind \in {"missing", "text"}) =>
            /\ fn_out # Pending => fn_out.kind = "raise"
            /\ NothingProcessed
            /\ disk = EmptyMap

\* the constructor has run on a file that is not JSON and has raised
C17_Witness ==
    /\ fn = "NumericFormatAnalyzer" /\ fn_in.kind = "text"
    /\ fn_out = Raise("JSONDecodeError")
    /\ nstore # <<>>

-----------------------------------------------------------------------------
(* Claims about OpenFoodFactsScraper, checked under SpecScrape             *)

\* C19: the scraper resumes after an interruption: if run() is interrupted
\* after at least one save_checkpoint, the next scraper that is created
\* holds the checkpointed current_page and barcode set, instead of page 1
\* and an empty barcode set.
C19_ResumesFromCheckpoint ==
    (spc = "ready" /\ interrupted_at.exists) =>
        /\ current_page = interrupted_at.current_page
        /\ barcodes = interrupted_at.barcodes

\* the file of the barcode is in the bucket, under EAN8/ or under EAN13/
FileInS3(keys, barcode) ==
    \E i \in DOMAIN FolderNames :
        PrefixOf(FolderNames[i]) \o barcode \o T_dot_json \in keys

\* C20: the scraper never re-uploads an existing product: a run uploads no
\* barcode whose file was in S3 under openfoodfacts/EAN8/ or
\* openfoodfacts/EAN13/ when the scraper started or was uploaded earlier in
\* the same run, and uploads each barcode at most once.
C20_NoReupload ==
    /\ \A i \in DOMAIN uploaded : ~FileInS3(s3_at_start, uploaded[i])
    /\ \A i, j \in DOMAIN uploaded : uploaded[i] = uploaded[j] => i = j

-----------------------------------------------------------------------------
(* Claim about two unsynchronized writers, checked under                   *)
(* SpecFilesConcurrent                                                     *)

\* C21: with two writers and no lock a save can overwrite a snapshot, and
\* it does so only in a race: the path was free when the writer scanned,
\* the snapshot it destroys was saved by the other writer between that scan
\* and the write, and its content is lost.
C21_OverwriteOnlyInARace ==
    [][\A w \in DOMAIN wpc :
          (wpc[w] = "write" /\ wpc'[w] = "idle" /\ wpath[w] \in DOMAIN disk) =>
              /\ disk[wpath[w]] > wscan[w]
              /\ disk'[wpath[w]] # disk[wpath[w]]]_vars

\* two saves in succession went to the same path of a family: the second
\* replaced the first, and fewer snapshots exist than were saved
C21_Witness ==
    \E f \in Families : \E i \in DOMAIN wlog[f] : \E j \in DOMAIN wlog[f] :
        /\ i < j
        /\ wlog[f][i] = wlog[f][j]
        /\ <<f, wlog[f][j]>> \in DOMAIN disk
        /\ disk[<<f, wlog[f][j]>>] = nwrites

-----------------------------------------------------------------------------
(* Claims about the accumulators of NumericFormatAnalyzer, checked under   *)
(* SpecNum                                                                 *)

\* C22: every call of analyze_all starts from empty raw, numbers and units
\* maps and goes through each listed key exactly once, also when it is
\* not the first call on the analyzer.
C22_BatchScopedAccumulator ==
    [][ncalls' = ncalls + 1 =>
          /\ raw_results = EmptyMap
          /\ numbers_results = EmptyMap
          /\ units_results = EmptyMap
          /\ \A i \in DOMAIN nkeys' : \A j \in DOMAIN nkeys' :
                nkeys'[i] = nkeys'[j] => i = j]_vars


\* the accumulators after the records have gone through the loop of
\* analyze_all in the given order, starting from acc
RECURSIVE AnalyzeInOrder(_, _, _)
AnalyzeInOrder(acc, bodies, i) ==
    IF i > Len(bodies) THEN acc
    ELSE AnalyzeInOrder(AnalyzeRecord(acc, bodies[i]), bodies, i + 1)

\* the finalized reports of a batch processed in the given order
FinalizedReports(bodies) ==
    Deduplicated(AnalyzeInOrder(Accumulators(EmptyMap, EmptyMap, EmptyMap),
                                bodies, 1))

\* C23: the order of the records does not matter: the reports that the
\* first call of analyze_all has finalized are the reports of every other
\* order of the same records.
C23_OrderIndependent ==
    (npc = "done" /\ ncalls = 1) =>
        \A order \in Orderings(DOMAIN nkeys) :
            FinalizedReports([i \in DOMAIN nkeys |-> nstore[nkeys[order[i]]]])
                = Accumulators(raw_results, numbers_results, units_results)


NumbersFoundOf(acc, section) ==
    IF section \in DOMAIN acc.numbers_results
    THEN acc.numbers_results[section].numbers_found ELSE <<>>
NumbersMissingOf(acc, section) ==
    IF section \in DOMAIN acc.numbers_results
    THEN acc.numbers_results[section].missing ELSE EmptyMap
UnitsFoundOf(acc, section) ==
    IF section \in DOMAIN acc.units_results
    THEN acc.units_results[section].units_found ELSE <<>>
UnitsMissingOf(acc, section) ==
    IF section \in DOMAIN acc.units_results
    THEN acc.units_results[section].missing ELSE EmptyMap

\* the value holds a digit, respectively a letter of a unit
HasNumber(v) == \E i \in DOMAIN v : IsDigit(v[i])
HasUnit(v) == \E i \in DOMAIN v : IsUnitLetter(v[i])

\* missing_after is missing_before with barcode -> v and no other change
WithEntry(missing_before, missing_after, barcode, v) ==
    /\ DOMAIN missing_after = DOMAIN missing_before \cup {barcode}
    /\ missing_after[barcode] = v
    /\ \A b \in DOMAIN missing_before \ {barcode} :
            missing_after[b] = missing_before[b]

\* the numbers and the units of the value v are accounted separately
NumbersTallied(before, after, section, v, barcode, numbers) ==
    IF HasNumber(v)
    THEN /\ numbers # <<>>
         /\ NumbersFoundOf(after, section) = NumbersFoundOf(before, section) \o numbers
         /\ NumbersMissingOf(after, section) = NumbersMissingOf(before, section)
    ELSE /\ NumbersFoundOf(after, section) = NumbersFoundOf(before, section)
         /\ WithEntry(NumbersMissingOf(before, section),
                      NumbersMissingOf(after, section), barcode, v)
UnitsTallied(before, after, section, v, barcode, units) ==
    IF HasUnit(v)
    THEN /\ units # <<>>
         /\ UnitsFoundOf(after, section) = UnitsFoundOf(before, section) \o units
         /\ UnitsMissingOf(after, section) = UnitsMissingOf(before, section)
    ELSE /\ UnitsFoundOf(after, section) = UnitsFoundOf(before, section)
         /\ WithEntry(UnitsMissingOf(before, section),
                      UnitsMissingOf(after, section), barcode, v)
IndependentTallies(before, after, section, v, barcode) ==
    /\ NumbersTallied(before, after, section, v, barcode,
                      FindNumbersAndUnits(v).numbers)
    /\ UnitsTallied(before, after, section, v, barcode,
                    FindNumbersAndUnits(v).units)

-----------------------------------------------------------------------------
(* Claim about the two reports of analyze_all_products, checked under      *)
(* SpecValidate                                                            *)

\* the check returns True on the record
Passes(c, product) == Check(c, product) = Ok(TRUE)

\* the field that a check looks at
FieldChecked(c) ==
    CASE c = "name_present" -> "name"
      [] c = "categories_present" -> "categories"
      [] c = "nutri_score_valid" -> "nutri_score"
      [] c = "green_score_valid" -> "green_score_letter"
      [] c = "main_nutrients_present" -> "nutrients_100g"

\* the entry of a record in the errors report: true for a check that
\* passes, the detail with the field it checked for a check that fails
PerFieldDetail(detailed_checks, product) ==
    /\ DOMAIN detailed_checks = Range(CheckNames)
    /\ \A c \in Range(CheckNames) :
            IF Passes(c, product) THEN detailed_checks[c] = [passed |-> TRUE]
            ELSE /\ {"error", "value_found", "field_name"}
                        \subseteq DOMAIN detailed_checks[c]
                 /\ detailed_checks[c].field_name = FieldChecked(c)

\* the record is in the valid report iff its five checks pass, in the
\* errors report otherwise, and its entry there is per field
ReportedPerField(key, product) ==
    IF \A c \in Range(CheckNames) : Passes(c, product)
    THEN key \in DOMAIN valids /\ key \notin DOMAIN errors
    ELSE /\ key \notin DOMAIN valids /\ key \in DOMAIN errors
         /\ PerFieldDetail(errors[key], product)

\* C25: when analyze_all_products has returned, every record of the
\* listing is in the valid report iff all five checks pass and in the errors
\* report otherwise, never in both, and in the errors report every failing
\* check has its own detail naming its field and every passing check is
\* true.
C25_FailuresPerField ==
    vpc = "done" =>
        \A i \in DOMAIN vkeys :
            store[vkeys[i]].kind = "object" =>
                ReportedPerField(vkeys[i], store[vkeys[i]].v)

-----------------------------------------------------------------------------
(* Claims about nutrient names with a parenthesized suffix, checked under  *)
(* SpecPure                                                                *)

\* the lowercase form of a name without its parenthesized groups
ParentheticalStripped(name) == StripParens(StandardizeTextA(name))

\* the required name n is the parenthetical-stripped form of a nutrient key
\* of the record and of a name of the reference file
HasNutrientStripped(nutrients, n) ==
    /\ \E j \in DOMAIN ReferenceFile : ParentheticalStripped(ReferenceFile[j]) = n
    /\ \E i \in DOMAIN nutrients.m : ParentheticalStripped(nutrients.m[i][1]) = n

\* C26: main_nutrients_present matches nutrient keys in their lowercase,
\* parenthetical-stripped form: a record passes iff each of energy, fat,
\* proteins and carbohydrates is the name before the parenthesis of one of
\* its nutrient keys, so that 'Energy (kj)' counts as energy.
C26_ParentheticalKeysMatch ==
    (/\ Returned("_check_main_nutrients_present")
     /\ Get(fn_in, "nutrients_100g", Map(<<>>)).t = "map") =>
        (fn_out = Ok(TRUE) <=>
            \A n \in RequiredNames :
                HasNutrientStripped(Get(fn_in, "nutrients_100g", Map(<<>>)), n))


\* the transformer's standardized form of a name without its
\* parenthesized groups
ParentheticalStrippedT(name) == StripParens(StandardizeTextT(name))

EnergyKeys == {T_energy_kj_100g, T_energy_kcal_100g}

\* C27: the transformer re-keys nutrients through the parenthetical-stripped
\* standardizer: every key of the result other than energy_kj_100g and
\* energy_kcal_100g is the lowercase, parenthetical-stripped form of a raw
\* key, and a raw key whose stripped form is 'energy' gives energy entries
\* only.
C27_RekeyedWithoutParenthetical ==
    (Returned("_transform_nutrients") /\ fn_out.kind = "ok") =>
        /\ \A k \in DOMAIN fn_out.v \ EnergyKeys :
                \E i \in DOMAIN fn_in : k = ParentheticalStrippedT(fn_in[i][1])
        /\ (Len(fn_in) = 1 /\ ParentheticalStrippedT(fn_in[1][1]) = T_energy) =>
                DOMAIN fn_out.v \subseteq EnergyKeys


\* {quantity: number, unit: non-empty lowercase text}
WellTyped(entry) ==
    /\ entry.t = "qty"
    /\ entry.quantity.mant \in Nat /\ entry.quantity.exp \in Nat
    /\ entry.unit # <<>>
    /\ \A i \in DOMAIN entry.unit :
            IsUnitLetter(entry.unit[i]) /\ LowerChar(entry.unit[i]) = entry.unit[i]

\* the raw value is empty or '?'
Placeholder(v) == ~Truthy(v) \/ v = Str(T_question)

\* the raw entry gives no nutrient: its value is empty or '?', or the
\* extraction of its single (quantity, unit) pair fails
Dropped(v) ==
    Placeholder(v) \/ v.t # "str" \/ SplitQuantityAndUnit(v.s).kind # "pair"

\* C28: the mapping that _transform_nutrients returns holds only
\* {quantity: number, unit: non-empty lowercase text} entries, each made
\* from a raw entry that is not dropped: a raw value that is empty or '?'
\* and a raw value whose extraction fails leave no entry, and no raw text
\* is retained.
C28_OnlyWellTypedNutrients ==
    (Returned("_transform_nutrients") /\ fn_out.kind = "ok") =>
        /\ \A k \in DOMAIN fn_out.v : WellTyped(fn_out.v[k])
        /\ \A k \in DOMAIN fn_out.v \ EnergyKeys :
                \E i \in DOMAIN fn_in :
                    /\ StandardizeTextT(fn_in[i][1]) = k
                    /\ ~Dropped(fn_in[i][2])
        /\ \A k \in DOMAIN fn_out.v \cap EnergyKeys :
                \E i \in DOMAIN fn_in :
                    /\ StandardizeTextT(fn_in[i][1]) = T_energy
                    /\ ~Placeholder(fn_in[i][2])

\* a mapping with an entry that parses and an entry whose value is '?':
\* the first is in the result, the second is not
C28_Witness ==
    /\ Returned("_transform_nutrients") /\ fn_out.kind = "ok"
    /\ \E i \in DOMAIN fn_in :
            fn_in[i] = <<T_fat, Str(T_question)>> /\ T_fat \notin DOMAIN fn_out.v
    /\ \E i \in DOMAIN fn_in :
            /\ fn_in[i][1] = T_proteins /\ ~Dropped(fn_in[i][2])
            /\ T_proteins \in DOMAIN fn_out.v

-----------------------------------------------------------------------------
(* Claim about the end of a batch of NumericFormatAnalyzer, checked under  *)
(* SpecNum                                                                 *)

\* the accumulators that the step hands to _save_all_reports: after the
\* last record of the loop, or as they are when no key is listed
AtBatchEnd ==
    IF npc = "loop"
    THEN AnalyzeRecord(Accumulators(raw_results, numbers_results, units_results),
                       nstore[nkeys[ni]])
    ELSE Accumulators(raw_results, numbers_results, units_results)

\* no duplicates and ascending order
StrictlyAscending(list) ==
    \A i \in 1..(Len(list) - 1) : TextLess(list[i], list[i + 1])

\* the list is the finalized form of the accumulated list
FinalizedFrom(accumulated, list) ==
    StrictlyAscending(list) /\ Range(list) = Range(accumulated)

FoundSetsFinalized(before) ==
    /\ DOMAIN raw_results' = DOMAIN before.raw_results
    /\ DOMAIN numbers_results' = DOMAIN before.numbers_results
    /\ DOMAIN units_results' = DOMAIN before.units_results
    /\ \A k \in DOMAIN before.raw_results :
            FinalizedFrom(before.raw_results[k], raw_results'[k])
    /\ \A k \in DOMAIN before.numbers_results :
            FinalizedFrom(before.numbers_results[k].numbers_found,
                          numbers_results'[k].numbers_found)
    /\ \A k \in DOMAIN before.units_results :
            FinalizedFrom(before.units_results[k].units_found,
                          units_results'[k].units_found)

\* C29: every step that saves the reports leaves each field's raw list,
\* numbers_found list and units_found list without duplicates, in
\* ascending order, and with exactly the distinct values that had been
\* accumulated for the field; the raw report written is that raw list.
C29_FoundSetsFinalized ==
    [][disk' # disk =>
          /\ FoundSetsFinalized(AtBatchEnd)
          /\ \E p \in DOMAIN disk' \ DOMAIN disk :
                p[1] = "numeric_format_raw" /\ disk'[p] = raw_results']_vars

\* the first batch is saved, a list holds two values, and the batch had
\* accumulated a longer list for that field
C29_Witness ==
    /\ npc = "done" /\ ncalls = 1
    /\ \E k \in DOMAIN raw_results :
            /\ Len(raw_results[k]) >= 2
            /\ Len(AnalyzeInOrder(NoAccumulators,
                                  [i \in DOMAIN nkeys |-> nstore[nkeys[i]]],
                                  1).raw_results[k]) > Len(raw_results[k])

-----------------------------------------------------------------------------
(* Claim about the barcodes the scraper handles, checked under SpecScrape  *)

\* the barcode is one that classify_barcodes keeps, and its file is under
\* the folder of its length
FiledAsClassified(barcode, classified) ==
    /\ barcode \in Range(classified.EAN_8) \cup Range(classified.EAN_13)
    /\ Len(barcode) = 8 =>
            PrefixOf(T_EAN8) \o barcode \o T_dot_json \in s3
    /\ PrefixOf(T_EAN13) \o barcode \o T_dot_json \in s3 \ s3_at_start =>
            Len(barcode) = 13

\* C30: the scraper only handles EAN-8 and EAN-13 barcodes: every barcode
\* that run() has uploaded is in EAN_8 or EAN_13 of classify_barcodes, a
\* barcode of 8 characters is under openfoodfacts/EAN8/ and every barcode
\* uploaded under openfoodfacts/EAN13/ has 13 characters.
C30_OnlyEanBarcodes ==
    spc = "scrape" =>
        \A i \in DOMAIN uploaded :
            FiledAsClassified(uploaded[i], ClassifyBarcodes(barcodes_list))

====
